---- MODULE Spec2Model ----
(***************************************************************************)
(* Call-session orchestration of the voice playground.                     *)
(*                                                                         *)
(* Two React call controllers are modelled: AuraPage (app/aura/page.tsx)   *)
(* and Home (app/page.tsx).  Each invocation of an async handler           *)
(* (startCall, endCall, startConversation, stopConversation, the unmount   *)
(* cleanup) is a task; a task advances one step per awaited call, the      *)
(* outcome of the awaited call (resolve / reject, ok / not ok) being       *)
(* chosen by the environment.  RTC clients, local tracks and remote        *)
(* agents are named after the task whose start created them.               *)
(***************************************************************************)
EXTENDS Integers, Sequences, FiniteSets, TLC

\* ---------------------------------------------------------------- bounds
\* number of handler invocations followed in one behaviour
MaxTasks == 2
\* size of the participant-id space drawn from (100000 in the code)
UidRange == 3
\* longest sequence of Math.random() draws given to generateUids
MaxDraws == 4

Tasks == 1..MaxTasks
\* a ref holding null
Null == 0

VARIABLES
    page,           \* which page the browser shows: "aura" or "home"
    mounted,        \* the page component is mounted
    status,         \* AuraPage: useState<Status>
    state,          \* Home: useState<ConnectionState>
    isSpeaking,     \* Home: useState(false)
    clientRef,      \* useRef: task whose client it holds, or Null
    localTrackRef,  \* AuraPage useRef: task whose track it holds, or Null
    audioTrackRef,  \* Home useRef: task whose track it holds, or Null
    agentIdRef,     \* Home useRef: task whose agent id it holds, or Null
    task,           \* handler invocations and the objects they created
    agent,          \* remote agent started by a task, as the vendor sees it
    stopReq,        \* agents for which DELETE /agent was issued
    tornDown,       \* starts whose resources a teardown touched in flight
    selectedPlatform,   \* Home: useState('shengwang'), the platform select
    draws,          \* generateUids: the sequence of random draws
    uidResult,      \* generateUids: the value returned
    sess,           \* participant ids of one session and where they were sent
    route,          \* API route handler that runs: method and path
    req,            \* API route: the parsed request body
    env,            \* API route: process.env, the credentials per platform
    rpc,            \* API route: position of the handler
    up,             \* API route: how the awaited upstream call settled
    calls,          \* API route: upstream requests / signing calls issued
    resp,           \* API route: the NextResponse returned
    surfaced,       \* message the calling page shows for a failed launch
    logs,           \* agent route: the module-level log buffer
    clock,          \* the wall clock read by Date.now() / new Date()
    lg,             \* log buffer: its cap, the handlers appending, GET's answer
    timer,          \* AuraPage: duration, the interval of timerRef, the status
                    \* the timer effect last ran for
    chan,           \* a call of generateChannelName and the clock around it
    pwd,            \* password gate: the configured password, an input, results
    debugLogs       \* the page's own log (Home debugLogs, AuraPage logs)

vars == <<page, mounted, status, state, isSpeaking, clientRef, localTrackRef,
          audioTrackRef, agentIdRef, task, agent, stopReq, tornDown,
          selectedPlatform, draws, uidResult, sess, route, req, env, rpc, up, calls, resp,
          surfaced, logs, clock, lg, timer, chan, pwd,
                debugLogs>>

ctlVars == <<page, mounted, status, state, isSpeaking, clientRef,
             localTrackRef, audioTrackRef, agentIdRef, task, agent, stopReq,
             tornDown, selectedPlatform>>

uidVars == <<draws, uidResult>>

idVars == <<sess>>

apiVars == <<route, req, env, rpc, up, calls, resp, surfaced>>

logVars == <<logs, clock, lg>>

utilVars == <<timer, chan, pwd,
                debugLogs>>

\* everything the call controllers' handlers leave alone
offCtlVars == <<selectedPlatform, draws, uidResult, sess, route, req, env, rpc, up, calls, resp,
                surfaced, logs, clock, lg, timer, chan, pwd,
                debugLogs>>

\* everything endCall leaves alone outside the controller: it sets duration
offEndCallVars == <<selectedPlatform, draws, uidResult, sess, route, req, env, rpc, up, calls,
                    resp, surfaced, logs, clock, lg, chan, pwd,
                debugLogs>>

\* ------------------------------------------------------------ task record
\* kind, pc, userTok (tokenData), didJoin (await client.join returned),
\* agentTok (agentTokenData) and tgt (the object of the awaited teardown
\* call) are the invocation's locals; client,
\* track and lis are the state of the RTC objects the invocation created;
\* platform is the value of Home's platform state in the closure that the
\* invocation runs (its launch and stop requests carry it)
FreeTask == [kind |-> "free", pc |-> "none", client |-> "none",
             track |-> "none", lis |-> FALSE, userTok |-> FALSE,
             didJoin |-> FALSE, agentTok |-> FALSE, tgt |-> Null,
             platform |-> "none"]

Terminal == {"done", "thrown"}

\* the handler invocation t returns (how = "done") or rejects (how =
\* "thrown"): its locals are gone, the objects it created remain
Return(tk, t, how) ==
    [tk EXCEPT ![t].pc = how, ![t].userTok = FALSE, ![t].didJoin = FALSE,
               ![t].agentTok = FALSE, ![t].tgt = Null]

\* once a client has no listener or has left the channel, the agent's
\* publish / unpublish events no longer reach the page
Unheard(ag, c) ==
    IF c # Null /\ ag[c] = "speaking" THEN [ag EXCEPT ![c] = "running"] ELSE ag

\* an awaited HTTP request of the start sequence
InFlightReq == {"userToken", "agentToken", "agent"}

HasFree == \E t \in Tasks : task[t].kind = "free"

NextFree == CHOOSE t \in Tasks :
                /\ task[t].kind = "free"
                /\ \A u \in Tasks : u < t => task[u].kind # "free"

\* a continuation that runs in the same tick as the step before it
Quiet == \A t \in Tasks : task[t].pc # "catch"

\* starts that are waiting for a request while a teardown run by t
\* closes their track or leaves their client
Touched(t, cref, tref) ==
    {u \in Tasks : /\ u # t
                   /\ task[u].kind = "start"
                   /\ task[u].pc \in InFlightReq
                   /\ (cref = u \/ tref = u)}

\* -------------------------------------------------------- state machine
validTransitions ==
    [idle       |-> {"connecting"},
     connecting |-> {"connected", "error"},
     connected  |-> {"talking", "idle", "error"},
     talking    |-> {"connected", "idle", "error"},
     error      |-> {"idle", "connecting"}]

isValidTransition(from, to) == to \in validTransitions[from]

\* ================================================================ AuraPage
\* startCall up to the first await: setStatus('connecting'); import(sdk)
A_StartCall ==
    /\ page = "aura" /\ mounted /\ Quiet /\ HasFree
    /\ status \in {"idle", "error"}
    /\ status' = "connecting"
    /\ task' = [task EXCEPT ![NextFree] =
                   [FreeTask EXCEPT !.kind = "start", !.pc = "import"]]
    /\ UNCHANGED <<page, mounted, state, isSpeaking, clientRef, localTrackRef,
                   audioTrackRef, agentIdRef, agent, stopReq, tornDown>>
    /\ UNCHANGED offCtlVars

\* throw inside the try block: the catch clause runs setStatus('error')
\* and then calls endCall() in the same tick
A_Throw(t) ==
    /\ status' = "error"
    /\ task' = [task EXCEPT ![t].pc = "catch"]
    /\ UNCHANGED <<clientRef, localTrackRef, agent>>

\* the SDK import settles: createClient, clientRef.current = client,
\* fetch('/api/token') for the human participant
A_Imported(t) ==
    /\ page = "aura" /\ Quiet
    /\ task[t].kind = "start" /\ task[t].pc = "import"
    /\ \E ok \in BOOLEAN :
         IF ok
         THEN /\ clientRef' = t
              /\ task' = [task EXCEPT ![t].client = "created",
                                      ![t].pc = "userToken"]
              /\ UNCHANGED <<status, localTrackRef, agent>>
         ELSE A_Throw(t)
    /\ UNCHANGED <<page, mounted, state, isSpeaking, audioTrackRef,
                   agentIdRef, stopReq, tornDown>>
    /\ UNCHANGED offCtlVars

\* A_UserToken without the check of tokenRes.ok
A_UserToken_unchecked(t) ==
    /\ page = "aura" /\ Quiet
    /\ task[t].kind = "start" /\ task[t].pc = "userToken"
    /\ \E ok \in BOOLEAN :
         /\ task' = [task EXCEPT ![t].userTok = ok, ![t].pc = "join"]
         /\ UNCHANGED <<status, clientRef, localTrackRef, agent>>
    /\ UNCHANGED <<page, mounted, state, isSpeaking, audioTrackRef,
                   agentIdRef, stopReq, tornDown>>
    /\ UNCHANGED offCtlVars

\* the human token request settles: if (!tokenRes.ok) throw; client.join
A_UserToken(t) ==
    /\ page = "aura" /\ Quiet
    /\ task[t].kind = "start" /\ task[t].pc = "userToken"
    /\ \E ok \in BOOLEAN :
         IF ok
         THEN /\ task' = [task EXCEPT ![t].userTok = TRUE, ![t].pc = "join"]
              /\ UNCHANGED <<status, clientRef, localTrackRef, agent>>
         ELSE A_Throw(t)
    /\ UNCHANGED <<page, mounted, state, isSpeaking, audioTrackRef,
                   agentIdRef, stopReq, tornDown>>
    /\ UNCHANGED offCtlVars

\* client.join settles: createMicrophoneAudioTrack
A_Joined(t) ==
    /\ page = "aura" /\ Quiet
    /\ task[t].kind = "start" /\ task[t].pc = "join"
    /\ \E ok \in BOOLEAN :
         IF ok
         THEN /\ task' = [task EXCEPT ![t].client = "joined",
                                      ![t].didJoin = TRUE,
                                      ![t].pc = "track"]
              /\ UNCHANGED <<status, clientRef, localTrackRef, agent>>
         ELSE A_Throw(t)
    /\ UNCHANGED <<page, mounted, state, isSpeaking, audioTrackRef,
                   agentIdRef, stopReq, tornDown>>
    /\ UNCHANGED offCtlVars

\* createMicrophoneAudioTrack settles: localTrackRef.current = localTrack,
\* client.publish
A_TrackCreated(t) ==
    /\ page = "aura" /\ Quiet
    /\ task[t].kind = "start" /\ task[t].pc = "track"
    /\ \E ok \in BOOLEAN :
         IF ok
         THEN /\ localTrackRef' = t
              /\ task' = [task EXCEPT ![t].track = "live",
                                      ![t].pc = "publish"]
              /\ UNCHANGED <<status, clientRef, agent>>
         ELSE A_Throw(t)
    /\ UNCHANGED <<page, mounted, state, isSpeaking, audioTrackRef,
                   agentIdRef, stopReq, tornDown>>
    /\ UNCHANGED offCtlVars

\* A_Published sending the launch request without an agent token
A_Published_noAgentToken(t) ==
    /\ page = "aura" /\ Quiet
    /\ task[t].kind = "start" /\ task[t].pc = "publish"
    /\ \E ok \in BOOLEAN :
         IF ok
         THEN /\ task' = [task EXCEPT ![t].lis = TRUE, ![t].pc = "agent"]
              /\ UNCHANGED <<status, clientRef, localTrackRef, agent>>
         ELSE A_Throw(t)
    /\ UNCHANGED <<page, mounted, state, isSpeaking, audioTrackRef,
                   agentIdRef, stopReq, tornDown>>
    /\ UNCHANGED offCtlVars

\* client.publish settles: client.on('user-published'...),
\* client.on('user-unpublished'...), fetch('/api/token') for the agent
A_Published(t) ==
    /\ page = "aura" /\ Quiet
    /\ task[t].kind = "start" /\ task[t].pc = "publish"
    /\ \E ok \in BOOLEAN :
         IF ok
         THEN /\ task' = [task EXCEPT ![t].lis = TRUE,
                                      ![t].pc = "agentToken"]
              /\ UNCHANGED <<status, clientRef, localTrackRef, agent>>
         ELSE A_Throw(t)
    /\ UNCHANGED <<page, mounted, state, isSpeaking, audioTrackRef,
                   agentIdRef, stopReq, tornDown>>
    /\ UNCHANGED offCtlVars

\* the agent token request settles: if (!agentTokenRes.ok) throw;
\* fetch('/api/agent', POST)
A_AgentToken(t) ==
    /\ page = "aura" /\ Quiet
    /\ task[t].kind = "start" /\ task[t].pc = "agentToken"
    /\ \E ok \in BOOLEAN :
         IF ok
         THEN /\ task' = [task EXCEPT ![t].agentTok = TRUE,
                                      ![t].pc = "agent"]
              /\ UNCHANGED <<status, clientRef, localTrackRef, agent>>
         ELSE A_Throw(t)
    /\ UNCHANGED <<page, mounted, state, isSpeaking, audioTrackRef,
                   agentIdRef, stopReq, tornDown>>
    /\ UNCHANGED offCtlVars

\* A_AgentStarted without the check of agentRes.ok
A_AgentStarted_unchecked(t) ==
    /\ page = "aura" /\ Quiet
    /\ task[t].kind = "start" /\ task[t].pc = "agent"
    /\ \E ok \in BOOLEAN :
         /\ status' = "connected"
         /\ task' = Return(task, t, "done")
         /\ agent' = IF ok THEN [agent EXCEPT ![t] = "running"] ELSE agent
         /\ UNCHANGED <<clientRef, localTrackRef>>
    /\ UNCHANGED <<page, mounted, state, isSpeaking, audioTrackRef,
                   agentIdRef, stopReq, tornDown>>
    /\ UNCHANGED offCtlVars

\* POST /api/agent settles: if (!agentRes.ok) throw; setStatus('connected')
A_AgentStarted(t) ==
    /\ page = "aura" /\ Quiet
    /\ task[t].kind = "start" /\ task[t].pc = "agent"
    /\ \E ok \in BOOLEAN :
         IF ok
         THEN /\ status' = "connected"
              /\ task' = Return(task, t, "done")
              /\ agent' = [agent EXCEPT ![t] = "running"]
              /\ UNCHANGED <<clientRef, localTrackRef>>
         ELSE A_Throw(t)
    /\ UNCHANGED <<page, mounted, state, isSpeaking, audioTrackRef,
                   agentIdRef, stopReq, tornDown>>
    /\ UNCHANGED offCtlVars

\* const [duration, setDuration] = useState(0); timerRef = useRef(null).
\* on: timerRef holds a live interval; seen: the status of the render the
\* timer effect last ran for
IdleTimer == [dur |-> 0, on |-> FALSE, seen |-> "idle"]

\* setDuration(v)
setDuration(tm, v) == [tm EXCEPT !.dur = v]

\* endCall up to its first await, run by task t of the task table tk.
\* closeOk: whether localTrackRef.current.close() returns or throws.
endCall(t, tk, closeOk) ==
    /\ tornDown' = tornDown \cup Touched(t, clientRef, localTrackRef)
    /\ IF localTrackRef # Null /\ ~closeOk
       THEN \* close() threw: the catch logs it; setStatus('idle')
            /\ status' = "idle"
            /\ timer' = setDuration(timer, 0)
            /\ task' = Return([tk EXCEPT ![localTrackRef].track = "closeFailed"],
                              t, "done")
            /\ UNCHANGED <<clientRef, localTrackRef, agent>>
       ELSE LET closed == IF localTrackRef = Null THEN tk
                          ELSE [tk EXCEPT ![localTrackRef].track = "closed"]
            IN  /\ localTrackRef' = Null
                /\ IF clientRef # Null
                   THEN \* removeAllListeners(); await leave()
                        /\ task' = [closed EXCEPT ![clientRef].lis = FALSE,
                                                  ![t].pc = "leave",
                                                  ![t].tgt = clientRef]
                        /\ agent' = Unheard(agent, clientRef)
                        /\ UNCHANGED <<status, clientRef, timer>>
                   ELSE \* addLog; setStatus('idle'); setDuration(0)
                        /\ status' = "idle"
                        /\ timer' = setDuration(timer, 0)
                        /\ task' = Return(closed, t, "done")
                        /\ UNCHANGED <<clientRef, agent>>

\* the catch clause of startCall returning without await endCall()
A_Catch_noEndCall(t) ==
    /\ page = "aura"
    /\ task[t].kind = "start" /\ task[t].pc = "catch"
    /\ task' = Return(task, t, "done")
    /\ UNCHANGED <<page, mounted, status, state, isSpeaking, clientRef,
                   localTrackRef, audioTrackRef, agentIdRef, agent, stopReq,
                   tornDown>>
    /\ UNCHANGED offCtlVars

\* the catch clause of startCall goes on: await endCall()
A_Catch(t) ==
    /\ page = "aura"
    /\ task[t].kind = "start" /\ task[t].pc = "catch"
    /\ \E closeOk \in BOOLEAN : endCall(t, task, closeOk)
    /\ UNCHANGED <<page, mounted, state, isSpeaking, audioTrackRef,
                   agentIdRef, stopReq>>
    /\ UNCHANGED offEndCallVars

\* the hang-up button (shown while connected or talking): onClick={endCall}
A_HangUp ==
    /\ page = "aura" /\ mounted /\ Quiet /\ HasFree
    /\ status \in {"connected", "talking"}
    /\ \E closeOk \in BOOLEAN :
         endCall(NextFree,
                 [task EXCEPT ![NextFree] = [FreeTask EXCEPT !.kind = "stop"]],
                 closeOk)
    /\ UNCHANGED <<page, mounted, state, isSpeaking, audioTrackRef,
                   agentIdRef, stopReq>>
    /\ UNCHANGED offEndCallVars

\* leave() of endCall settles: clientRef.current = null; addLog;
\* setStatus('idle'); setDuration(0).  A rejected leave() is caught and the
\* same two setters run.
A_Left(t) ==
    /\ page = "aura" /\ Quiet
    /\ task[t].kind \in {"start", "stop"} /\ task[t].pc = "leave"
    /\ \E ok \in BOOLEAN :
         IF ok
         THEN /\ clientRef' = Null
              /\ task' = Return([task EXCEPT ![task[t].tgt].client = "left"],
                                t, "done")
         ELSE /\ task' = Return([task EXCEPT
                                    ![task[t].tgt].client = "leaveFailed"],
                                t, "done")
              /\ UNCHANGED clientRef
    /\ status' = "idle"
    /\ timer' = setDuration(timer, 0)
    /\ UNCHANGED <<page, mounted, state, isSpeaking, localTrackRef,
                   audioTrackRef, agentIdRef, agent, stopReq, tornDown>>
    /\ UNCHANGED offEndCallVars

\* the remote agent starts or stops publishing audio and the client's
\* 'user-published' / 'user-unpublished' listener runs: subscribe, play,
\* addLog; the listeners do not touch the status
A_UserPublished(t) ==
    /\ page = "aura" /\ Quiet
    /\ task[t].client = "joined" /\ task[t].lis
    /\ agent[t] = "running"
    /\ agent' = [agent EXCEPT ![t] = "speaking"]
    /\ UNCHANGED <<page, mounted, status, state, isSpeaking, clientRef,
                   localTrackRef, audioTrackRef, agentIdRef, task, stopReq,
                   tornDown>>
    /\ UNCHANGED offCtlVars

A_UserUnpublished(t) ==
    /\ page = "aura" /\ Quiet
    /\ task[t].client = "joined" /\ task[t].lis
    /\ agent[t] = "speaking"
    /\ agent' = [agent EXCEPT ![t] = "running"]
    /\ UNCHANGED <<page, mounted, status, state, isSpeaking, clientRef,
                   localTrackRef, audioTrackRef, agentIdRef, task, stopReq,
                   tornDown>>
    /\ UNCHANGED offCtlVars

AuraNext ==
    \/ A_StartCall
    \/ A_HangUp
    \/ \E t \in Tasks :
         \/ A_Imported(t)
         \/ A_UserToken(t)
         \/ A_Joined(t)
         \/ A_TrackCreated(t)
         \/ A_Published(t)
         \/ A_AgentToken(t)
         \/ A_AgentStarted(t)
         \/ A_Catch(t)
         \/ A_Left(t)
         \/ A_UserPublished(t)
         \/ A_UserUnpublished(t)

\* ==================================================================== Home
\* React drops a state update made after the component was unmounted
SetState(v) == IF mounted THEN v ELSE state

SetIsSpeaking(v) == IF mounted THEN v ELSE isSpeaking

\* cleanup from "clean the audio track" on, run by task t of the task
\* table tk; st is the state set so far in this tick.  closeOk: whether
\* track.stop(); track.close() return or throw.  When cleanup returns to
\* stopConversation, setState('idle') follows.
cleanupTail(t, tk, st, closeOk) ==
    IF audioTrackRef # Null /\ ~closeOk
    THEN \* the throw leaves cleanup: the caller's promise rejects
         /\ task' = Return([tk EXCEPT ![audioTrackRef].track = "closeFailed"],
                           t, "thrown")
         /\ state' = st
         /\ UNCHANGED <<clientRef, audioTrackRef>>
    ELSE LET closed == IF audioTrackRef = Null THEN tk
                       ELSE [tk EXCEPT ![audioTrackRef].track = "closed"]
         IN  /\ audioTrackRef' = Null
             /\ UNCHANGED clientRef
             /\ IF clientRef # Null
                THEN \* await client.leave()
                     /\ task' = [closed EXCEPT ![t].pc = "leave",
                                               ![t].tgt = clientRef]
                     /\ state' = st
                ELSE /\ task' = Return(closed, t, "done")
                     /\ state' = IF tk[t].kind = "stop"
                                 THEN SetState("idle") ELSE st

\* cleanup up to its first await
cleanup(t, tk, st, closeOk) ==
    /\ isSpeaking' = SetIsSpeaking(FALSE)
    /\ tornDown' = tornDown \cup Touched(t, clientRef, audioTrackRef)
    /\ UNCHANGED agent
    /\ IF agentIdRef # Null
       THEN \* await fetch('/api/agent', DELETE)
            /\ stopReq' = stopReq \cup {agentIdRef}
            /\ task' = [tk EXCEPT ![t].pc = "stopAgent", ![t].tgt = agentIdRef]
            /\ state' = st
            /\ UNCHANGED <<clientRef, audioTrackRef, agentIdRef>>
       ELSE /\ cleanupTail(t, tk, st, closeOk)
            /\ UNCHANGED <<stopReq, agentIdRef>>

\* useState<'agora' | 'shengwang'>('shengwang')
InitialPlatform == "shengwang"

\* the platform in the closure of startConversation: useCallback with
\* platform among its dependencies, the callback of the latest render
startPlatform == selectedPlatform



\* the platform in the closure of stopConversation and of the unmount
\* effect: useCallback / useEffect with no dependencies keep the callback
\* of the first render, whose cleanup reads that render's platform
stopPlatform == InitialPlatform

\* the start button (enabled unless connecting or disconnecting; it stops
\* the conversation when connected): setState('connecting'); import(sdk)
H_StartConversation ==
    /\ page = "home" /\ mounted /\ HasFree
    /\ state = "idle"
    /\ state' = "connecting"
    /\ task' = [task EXCEPT ![NextFree] =
                   [FreeTask EXCEPT !.kind = "start", !.pc = "import",
                                    !.platform = startPlatform]]
    /\ UNCHANGED <<page, mounted, status, isSpeaking, clientRef, localTrackRef,
                   audioTrackRef, agentIdRef, agent, stopReq, tornDown>>
    /\ UNCHANGED offCtlVars

\* throw inside the try block of startConversation: the catch clause runs
\* setError, setState('idle') and await cleanup()
H_Throw(t) ==
    \E closeOk \in BOOLEAN : cleanup(t, task, SetState("idle"), closeOk)

\* the SDK import settles: createClient, clientRef.current = client,
\* fetch('/api/token') for the human participant
H_Imported(t) ==
    /\ page = "home"
    /\ task[t].kind = "start" /\ task[t].pc = "import"
    /\ \E ok \in BOOLEAN :
         IF ok
         THEN /\ clientRef' = t
              /\ task' = [task EXCEPT ![t].client = "created",
                                      ![t].pc = "userToken"]
              /\ UNCHANGED <<state, isSpeaking, audioTrackRef, agentIdRef,
                             agent, stopReq, tornDown>>
         ELSE H_Throw(t)
    /\ UNCHANGED <<page, mounted, status, localTrackRef>>
    /\ UNCHANGED offCtlVars

\* the human token request settles: throw unless the response is ok and
\* carries token and appId; fetch('/api/token') for the agent
H_UserToken(t) ==
    /\ page = "home"
    /\ task[t].kind = "start" /\ task[t].pc = "userToken"
    /\ \E ok \in BOOLEAN :
         IF ok
         THEN /\ task' = [task EXCEPT ![t].userTok = TRUE,
                                      ![t].pc = "agentToken"]
              /\ UNCHANGED <<state, isSpeaking, clientRef, audioTrackRef,
                             agentIdRef, agent, stopReq, tornDown>>
         ELSE H_Throw(t)
    /\ UNCHANGED <<page, mounted, status, localTrackRef>>
    /\ UNCHANGED offCtlVars

\* the agent token request settles: throw unless ok with a token;
\* client.on(...) for the four events; client.join
H_AgentToken(t) ==
    /\ page = "home"
    /\ task[t].kind = "start" /\ task[t].pc = "agentToken"
    /\ \E ok \in BOOLEAN :
         IF ok
         THEN /\ task' = [task EXCEPT ![t].agentTok = TRUE, ![t].lis = TRUE,
                                      ![t].pc = "join"]
              /\ UNCHANGED <<state, isSpeaking, clientRef, audioTrackRef,
                             agentIdRef, agent, stopReq, tornDown>>
         ELSE H_Throw(t)
    /\ UNCHANGED <<page, mounted, status, localTrackRef>>
    /\ UNCHANGED offCtlVars

\* client.join settles: createMicrophoneAudioTrack
H_Joined(t) ==
    /\ page = "home"
    /\ task[t].kind = "start" /\ task[t].pc = "join"
    /\ \E ok \in BOOLEAN :
         IF ok
         THEN /\ task' = [task EXCEPT ![t].client = "joined",
                                      ![t].didJoin = TRUE,
                                      ![t].pc = "track"]
              /\ UNCHANGED <<state, isSpeaking, clientRef, audioTrackRef,
                             agentIdRef, agent, stopReq, tornDown>>
         ELSE H_Throw(t)
    /\ UNCHANGED <<page, mounted, status, localTrackRef>>
    /\ UNCHANGED offCtlVars

\* createMicrophoneAudioTrack settles: audioTrackRef.current = audioTrack,
\* client.publish
H_TrackCreated(t) ==
    /\ page = "home"
    /\ task[t].kind = "start" /\ task[t].pc = "track"
    /\ \E ok \in BOOLEAN :
         IF ok
         THEN /\ audioTrackRef' = t
              /\ task' = [task EXCEPT ![t].track = "live",
                                      ![t].pc = "publish"]
              /\ UNCHANGED <<state, isSpeaking, clientRef, agentIdRef, agent,
                             stopReq, tornDown>>
         ELSE H_Throw(t)
    /\ UNCHANGED <<page, mounted, status, localTrackRef>>
    /\ UNCHANGED offCtlVars

\* client.publish settles: fetch('/api/agent', POST)
H_Published(t) ==
    /\ page = "home"
    /\ task[t].kind = "start" /\ task[t].pc = "publish"
    /\ \E ok \in BOOLEAN :
         IF ok
         THEN /\ task' = [task EXCEPT ![t].pc = "agent"]
              /\ UNCHANGED <<state, isSpeaking, clientRef, audioTrackRef,
                             agentIdRef, agent, stopReq, tornDown>>
         ELSE H_Throw(t)
    /\ UNCHANGED <<page, mounted, status, localTrackRef>>
    /\ UNCHANGED offCtlVars

\* POST /api/agent settles: if (!agentResponse.ok) throw;
\* agentIdRef.current = agentData.agentId; setState('connected')
H_AgentStarted(t) ==
    /\ page = "home"
    /\ task[t].kind = "start" /\ task[t].pc = "agent"
    /\ \E ok \in BOOLEAN :
         IF ok
         THEN /\ agentIdRef' = t
              /\ state' = SetState("connected")
              /\ task' = Return(task, t, "done")
              /\ agent' = [agent EXCEPT ![t] = "running"]
              /\ UNCHANGED <<isSpeaking, clientRef, audioTrackRef, stopReq,
                             tornDown>>
         ELSE H_Throw(t)
    /\ UNCHANGED <<page, mounted, status, localTrackRef>>
    /\ UNCHANGED offCtlVars

\* the stop button (the same button while connected):
\* setState('disconnecting'); await cleanup(); setState('idle')
H_StopConversation ==
    /\ page = "home" /\ mounted /\ HasFree
    /\ state = "connected"
    /\ \E closeOk \in BOOLEAN :
         cleanup(NextFree,
                 [task EXCEPT ![NextFree] =
                     [FreeTask EXCEPT !.kind = "stop",
                                      !.platform = stopPlatform]],
                 "disconnecting", closeOk)
    /\ UNCHANGED <<page, mounted, status, localTrackRef>>
    /\ UNCHANGED offCtlVars

\* the component unmounts: the effect's destructor calls cleanup()
H_Unmount ==
    /\ page = "home" /\ mounted /\ HasFree
    /\ mounted' = FALSE
    /\ \E closeOk \in BOOLEAN :
         cleanup(NextFree,
                 [task EXCEPT ![NextFree] =
                     [FreeTask EXCEPT !.kind = "unmount",
                                      !.platform = stopPlatform]],
                 state, closeOk)
    /\ UNCHANGED <<page, status, localTrackRef>>
    /\ UNCHANGED offCtlVars

\* DELETE /api/agent of cleanup settles (a rejected fetch is caught):
\* agentIdRef.current = null; then the track and the channel.
\* ok: the vendor stopped the agent.
H_AgentStopped(t) ==
    /\ page = "home"
    /\ task[t].pc = "stopAgent"
    /\ \E ok \in BOOLEAN, closeOk \in BOOLEAN :
         /\ agent' = IF ok THEN [agent EXCEPT ![task[t].tgt] = "stopped"]
                     ELSE agent
         /\ agentIdRef' = Null
         /\ cleanupTail(t, [task EXCEPT ![t].tgt = Null], state, closeOk)
    /\ UNCHANGED <<page, mounted, status, isSpeaking, localTrackRef, stopReq,
                   tornDown>>
    /\ UNCHANGED offCtlVars

\* client.leave() of cleanup settles: clientRef.current = null and cleanup
\* returns (stopConversation goes on with setState('idle')); a rejected
\* leave() rejects cleanup and its caller
H_Left(t) ==
    /\ page = "home"
    /\ task[t].pc = "leave"
    /\ \E ok \in BOOLEAN :
         IF ok
         THEN /\ clientRef' = Null
              /\ task' = Return([task EXCEPT ![task[t].tgt].client = "left"],
                                t, "done")
              /\ state' = IF task[t].kind = "stop" THEN SetState("idle")
                          ELSE state
         ELSE /\ task' = Return([task EXCEPT
                                    ![task[t].tgt].client = "leaveFailed"],
                                t, "thrown")
              /\ UNCHANGED <<clientRef, state>>
    /\ agent' = Unheard(agent, task[t].tgt)
    /\ UNCHANGED <<page, mounted, status, isSpeaking, localTrackRef,
                   audioTrackRef, agentIdRef, stopReq, tornDown>>
    /\ UNCHANGED offCtlVars

\* 'user-published': await client.subscribe; audioTrack.play();
\* setIsSpeaking(true) (a failed subscribe is caught and logged)
H_UserPublished(t) ==
    /\ page = "home"
    /\ task[t].client = "joined" /\ task[t].lis
    /\ agent[t] = "running"
    /\ agent' = [agent EXCEPT ![t] = "speaking"]
    /\ \E ok \in BOOLEAN :
         isSpeaking' = IF ok THEN SetIsSpeaking(TRUE) ELSE isSpeaking
    /\ UNCHANGED <<page, mounted, status, state, clientRef, localTrackRef,
                   audioTrackRef, agentIdRef, task, stopReq, tornDown>>
    /\ UNCHANGED offCtlVars

\* 'user-unpublished': setIsSpeaking(false)
H_UserUnpublished(t) ==
    /\ page = "home"
    /\ task[t].client = "joined" /\ task[t].lis
    /\ agent[t] = "speaking"
    /\ agent' = [agent EXCEPT ![t] = "running"]
    /\ isSpeaking' = SetIsSpeaking(FALSE)
    /\ UNCHANGED <<page, mounted, status, state, clientRef, localTrackRef,
                   audioTrackRef, agentIdRef, task, stopReq, tornDown>>
    /\ UNCHANGED offCtlVars

\* the options of the platform select
PlatformOptions == {"agora", "shengwang"}

\* the platform select (disabled unless idle): setPlatform(e.target.value)
H_SetPlatform ==
    /\ page = "home" /\ mounted
    /\ state = "idle"
    /\ \E p \in PlatformOptions \ {selectedPlatform} : selectedPlatform' = p
    /\ UNCHANGED <<page, mounted, status, state, isSpeaking, clientRef,
                   localTrackRef, audioTrackRef, agentIdRef, task, agent,
                   stopReq, tornDown>>
    /\ UNCHANGED <<uidVars, idVars, apiVars, logVars, utilVars>>

HomeNext ==
    \/ H_StartConversation
    \/ H_StopConversation
    \/ H_Unmount
    \/ \E t \in Tasks :
         \/ H_Imported(t)
         \/ H_UserToken(t)
         \/ H_AgentToken(t)
         \/ H_Joined(t)
         \/ H_TrackCreated(t)
         \/ H_Published(t)
         \/ H_AgentStarted(t)
         \/ H_AgentStopped(t)
         \/ H_Left(t)
         \/ H_UserPublished(t)
         \/ H_UserUnpublished(t)

\* ============================================================ generateUids
\* a value of Math.floor(Math.random() * 100000), scaled to UidRange
Uids == 0..(UidRange - 1)

DrawSeqs == UNION {[1..n -> Uids] : n \in 2..MaxDraws}

\* while (agentUid === userUid) agentUid = <next draw>; d[i] is the next
\* draw.  <<>> : the draws ran out before the loop ended.
RECURSIVE whileCollides(_, _, _, _)
whileCollides(d, i, userUid, agentUid) ==
    IF agentUid = userUid
    THEN IF i > Len(d) THEN <<>>
         ELSE whileCollides(d, i + 1, userUid, d[i])
    ELSE <<userUid, agentUid>>

\* generateUids with the while loop left out
generateUids_noLoop(d) == <<d[1], d[2]>>

\* generateUids with every draw taken as Math.floor(Math.random() *
\* 100000) + 1, the way Home.generateUid draws
generateUids_fromOne(d) ==
    LET ids == whileCollides(d, 3, d[1], d[2])
    IN  IF ids = <<>> THEN <<>> ELSE <<ids[1] + 1, ids[2] + 1>>

\* generateUids() under the draws d: <<userUid, agentUid>>
generateUids(d) == whileCollides(d, 3, d[1], d[2])

\* a call of generateUids()
CallGenerateUids ==
    /\ uidResult = <<>>
    /\ uidResult' = generateUids(draws)
    /\ UNCHANGED draws
    /\ UNCHANGED ctlVars
    /\ UNCHANGED <<idVars, apiVars, logVars, utilVars>>

\* ========================================================= participant ids
\* The start sequence of either page, followed for the participant ids
\* only: which id each request and the channel join are given.

\* Home.generateUid() under the draw r: Math.floor(Math.random()*100000) + 1
generateUid(r) == r + 1

\* an id not drawn or not sent yet
NoUid == -1

\* grants: the tokens obtained so far, each with the participant it was
\* requested for ("human": tokenData.token, "agent": agentTokenData.token)
\* and the uid sent; uses: the calls a token was passed to so far
IdleSess == [pc |-> "idle", userUid |-> NoUid, agentUid |-> NoUid,
             tokenUid |-> NoUid, joinUid |-> NoUid, agentTokenUid |-> NoUid,
             launchAgentUid |-> NoUid, launchUserUid |-> NoUid,
             grants |-> <<>>, uses |-> <<>>]

\* const tokenData = await tokenRes.json() of the request made for who
S_Granted(s, who, uid) ==
    [s EXCEPT !.grants = Append(@, [grant |-> who, uid |-> uid])]

\* AuraPage.startCall: const { userUid, agentUid } = generateUids();
\* fetch('/api/token', { uid: userUid })
S_StartCall ==
    /\ page = "aura" /\ sess.pc = "idle"
    /\ generateUids(draws) # <<>>
    /\ LET ids == generateUids(draws)
       IN  sess' = [sess EXCEPT !.pc = "userToken", !.userUid = ids[1],
                                !.agentUid = ids[2], !.tokenUid = ids[1]]
    /\ UNCHANGED <<ctlVars, uidVars, apiVars, logVars, utilVars>>

\* Home.startConversation: userUid = generateUid(); agentUid =
\* generateUid(); fetch('/api/token', { uid: userUid })
S_StartConversation ==
    /\ page = "home" /\ sess.pc = "idle"
    /\ LET u == generateUid(draws[1])
           a == generateUid(draws[2])
       IN  sess' = [sess EXCEPT !.pc = "userToken", !.userUid = u,
                                !.agentUid = a, !.tokenUid = u]
    /\ UNCHANGED <<ctlVars, uidVars, apiVars, logVars, utilVars>>

\* the agent token request: fetch('/api/token', { uid: agentUid })
S_RequestAgentToken(s) ==
    [s EXCEPT !.pc = "agentToken", !.agentTokenUid = s.agentUid]

\* client.join(appId, channelName, token, userUid)
S_Join(s) ==
    [s EXCEPT !.pc = "join", !.joinUid = s.userUid,
              !.uses = Append(@, [grant |-> "human", as |-> "join"])]

\* the human token request settles: AuraPage joins the channel, Home
\* requests the agent token
S_UserToken ==
    /\ sess.pc = "userToken"
    /\ \E ok \in BOOLEAN :
         sess' = IF ~ok THEN [sess EXCEPT !.pc = "failed"]
                 ELSE LET s == S_Granted(sess, "human", sess.tokenUid)
                      IN  IF page = "aura" THEN S_Join(s)
                          ELSE S_RequestAgentToken(s)
    /\ UNCHANGED <<ctlVars, uidVars, apiVars, logVars, utilVars>>

\* client.join settles: the microphone track is created and published
S_Joined ==
    /\ sess.pc = "join"
    /\ \E ok \in BOOLEAN :
         sess' = [sess EXCEPT !.pc = IF ok THEN "media" ELSE "failed"]
    /\ UNCHANGED <<ctlVars, uidVars, apiVars, logVars, utilVars>>

\* the launch request given the human's token in place of the agent's
S_Launch_humanToken(s) ==
    [s EXCEPT !.pc = "launch", !.launchAgentUid = s.agentUid,
              !.launchUserUid = s.userUid,
              !.uses = Append(@, [grant |-> "human",
                                  as |-> IF page = "aura" THEN "token"
                                         ELSE "userToken"])]

\* fetch('/api/agent', { agentUid, userUid, ... }) with the agent's token:
\* AuraPage sends token: agentTokenData.token, Home userToken: agentToken
S_Launch(s) ==
    [s EXCEPT !.pc = "launch", !.launchAgentUid = s.agentUid,
              !.launchUserUid = s.userUid,
              !.uses = Append(@, [grant |-> "agent",
                                  as |-> IF page = "aura" THEN "token"
                                         ELSE "userToken"])]

\* client.publish settles: AuraPage requests the agent token, Home sends
\* the launch request
S_Published ==
    /\ sess.pc = "media"
    /\ \E ok \in BOOLEAN :
         sess' = IF ~ok THEN [sess EXCEPT !.pc = "failed"]
                 ELSE IF page = "aura" THEN S_RequestAgentToken(sess)
                 ELSE S_Launch(sess)
    /\ UNCHANGED <<ctlVars, uidVars, apiVars, logVars, utilVars>>

\* the agent token request settles: AuraPage sends the launch request,
\* Home joins the channel
S_AgentToken ==
    /\ sess.pc = "agentToken"
    /\ \E ok \in BOOLEAN :
         sess' = IF ~ok THEN [sess EXCEPT !.pc = "failed"]
                 ELSE LET s == S_Granted(sess, "agent", sess.agentTokenUid)
                      IN  IF page = "aura" THEN S_Launch(s)
                          ELSE S_Join(s)
    /\ UNCHANGED <<ctlVars, uidVars, apiVars, logVars, utilVars>>

\* POST /api/agent settles
S_Launched ==
    /\ sess.pc = "launch"
    /\ \E ok \in BOOLEAN :
         sess' = [sess EXCEPT !.pc = IF ok THEN "connected" ELSE "failed"]
    /\ UNCHANGED <<ctlVars, uidVars, apiVars, logVars, utilVars>>

NextIds ==
    \/ S_StartCall
    \/ S_StartConversation
    \/ S_UserToken
    \/ S_Joined
    \/ S_Published
    \/ S_AgentToken
    \/ S_Launched

\* =============================================================== API routes
\* app/api/agent/route.ts (POST, DELETE) and app/api/token/route.ts (POST).
\* JavaScript values are strings; these stand for undefined, null and the
\* number 0.
undefined == "<undefined>"
null == "<null>"
zero == "<0>"

\* a value used as a condition: !v is ~Truthy(v)
Truthy(v) == v \notin {undefined, null, zero, ""}

\* a || b
JsOr(a, b) == IF Truthy(a) THEN a ELSE b

\* the keys of the JSON objects exchanged; a key holding undefined is absent
JKeys == {"error", "agentId", "status", "platform", "llm", "tts",
          "agent_id", "id", "message", "detail", "rawText",
          "token", "appId", "channelName", "uid"}

NoObj == [k \in JKeys |-> undefined]

\* { ...base, ...data }
Spread(base, data) ==
    [k \in JKeys |-> IF data[k] # undefined THEN data[k] ELSE base[k]]

\* the details field of an error response: absent, an object or a string
NoDetails == [kind |-> "none", obj |-> NoObj, text |-> ""]
ObjDetails(o) == [kind |-> "object", obj |-> o, text |-> ""]
TextDetails(s) == [kind |-> "text", obj |-> NoObj, text |-> s]

\* NextResponse.json(body, { status })
Json(st, body, details) == [status |-> st, body |-> body, details |-> details]

NoResp == Json(0, NoObj, NoDetails)

\* response.ok
Ok(st) == st >= 200 /\ st <= 299

\* ------------------------------------------------------------ environment
Platforms == {"agora", "shengwang"}

FullCreds == [appId |-> "app", appCertificate |-> "cert",
              customerId |-> "cid", customerSecret |-> "secret"]

\* process.env.X || '' : an unset variable reads as the empty string
CredSets == {FullCreds,
             [FullCreds EXCEPT !.appId = ""],
             [FullCreds EXCEPT !.appCertificate = ""],
             [FullCreds EXCEPT !.customerId = ""],
             [FullCreds EXCEPT !.customerSecret = ""]}

Envs == [Platforms -> CredSets]

\* -------------------------------------------------------------- requests
\* parsed = FALSE: request.json() rejects (the body is not JSON)
NoReq == [parsed |-> FALSE, channelName |-> undefined, agentUid |-> undefined,
          userUid |-> undefined, uid |-> undefined, agentId |-> undefined,
          platform |-> undefined, token |-> undefined,
          ttsVendor |-> undefined, language |-> undefined,
          systemPrompt |-> undefined, temperature |-> undefined,
          maxTokens |-> undefined]

LaunchRequests ==
    {NoReq} \cup
    {[NoReq EXCEPT !.parsed = TRUE, !.channelName = c, !.agentUid = a,
                   !.userUid = u, !.platform = p] :
        c \in {undefined, "", "ch"}, a \in {undefined, zero, "42"},
        u \in {undefined, "7"}, p \in {undefined} \cup Platforms}

StopRequests ==
    {NoReq} \cup
    {[NoReq EXCEPT !.parsed = TRUE, !.agentId = i, !.platform = p] :
        i \in {undefined, "", "agent-123"}, p \in {undefined} \cup Platforms}

TokenRequests ==
    {NoReq} \cup
    {[NoReq EXCEPT !.parsed = TRUE, !.channelName = c, !.uid = u,
                   !.platform = p] :
        c \in {undefined, "", "ch"}, u \in {undefined, null, zero, "7"},
        p \in {undefined, "other"} \cup Platforms}

Routes == {"POST /agent", "DELETE /agent", "POST /token"}

RequestsOf(r) == IF r = "POST /agent" THEN LaunchRequests
                 ELSE IF r = "DELETE /agent" THEN StopRequests
                 ELSE TokenRequests

\* ------------------------------------------------------------- upstream
\* how the awaited call settled.  failed: fetch rejected (network error);
\* json: the body text parses as a JSON object obj; otherwise raw is the
\* body text.  For POST /token it is the signing call: raw is the token
\* returned, failed a throw.
NoUp == [failed |-> FALSE, status |-> 0, json |-> FALSE, obj |-> NoObj,
         raw |-> ""]

UpStatuses == {200, 404, 500}

UpObjs == {NoObj,
           [NoObj EXCEPT !.agent_id = "agent-123"],
           [NoObj EXCEPT !.agent_id = "agent-123", !.status = "running"],
           [NoObj EXCEPT !.id = "agent-9"],
           [NoObj EXCEPT !.message = "X"],
           [NoObj EXCEPT !.message = ""],
           [NoObj EXCEPT !.detail = "D"],
           [NoObj EXCEPT !.message = "X", !.detail = "D"]}

UpRaw == {"", "<html>"}

Upstreams ==
    {[NoUp EXCEPT !.failed = TRUE]} \cup
    {[NoUp EXCEPT !.status = s, !.json = TRUE, !.obj = o] :
        s \in UpStatuses, o \in UpObjs} \cup
    {[NoUp EXCEPT !.status = s, !.raw = r] : s \in UpStatuses, r \in UpRaw}

\* try { data = JSON.parse(responseText) } catch { data = { rawText } }
ParseOrRaw(u) == IF u.json THEN u.obj ELSE [NoObj EXCEPT !.rawText = u.raw]

\* ------------------------------------------------------- POST /api/agent
\* const { platform = 'agora' } = body; config.getCredentials()
AgentPlatform(r) == IF r.platform = undefined THEN "agora" ELSE r.platform

AgentConfig(r) == IF AgentPlatform(r) = "shengwang" THEN "shengwang"
                  ELSE "agora"

\* --------------------------------------------------------------- the log
\* if (logs.length > 200) logs.shift()
LogCap == 200
\* the cap of the earlier drafts of the route
DraftLogCap == 50

\* { time: new Date().toISOString(), type, data }.  Of data the model keeps
\* who (the request it was logged for) and full (the secrets it holds
\* unshortened)
LogEntry(t, ty, w, f) == [time |-> t, type |-> ty, who |-> w, full |-> f]

\* log that never drops an entry
log_noShift(buf, cap, e) == Append(buf, e)

\* log that puts the new entry in front
log_unshift(buf, cap, e) ==
    LET pushed == <<e>> \o buf
    IN  IF Len(pushed) > cap THEN SubSeq(pushed, 1, cap) ELSE pushed

\* logs.push(entry); if (logs.length > cap) logs.shift()
log(buf, cap, e) ==
    LET pushed == Append(buf, e)
    IN  IF Len(pushed) > cap THEN Tail(pushed) ELSE pushed

\* the calls log(es[1]), log(es[2]), ... in turn
RECURSIVE logAll(_, _, _)
logAll(buf, cap, es) ==
    IF es = <<>> THEN buf ELSE logAll(log(buf, cap, es[1]), cap, Tail(es))

\* ------------------------------------------------------ launch payload
\* config.tts.options
TtsOptions(p) == IF p = "shengwang" THEN {"minimax", "volcano"}
                 ELSE {"elevenlabs"}

\* config.tts.default
TtsDefault(p) == IF p = "shengwang" THEN "minimax" ELSE "elevenlabs"

\* ttsVendorOf handing the requested vendor through
ttsVendorOf_asRequested(r) ==
    IF AgentConfig(r) = "shengwang"
    THEN IF Truthy(r.ttsVendor) THEN r.ttsVendor ELSE "minimax"
    ELSE "elevenlabs"

\* ttsConfig.vendor: isShengwang ? (ttsVendor === 'volcano' ?
\* getVolcanoTTS() : getMiniMaxTTS()) : getElevenLabsTTS()
ttsVendorOf(r) ==
    IF AgentConfig(r) = "shengwang"
    THEN IF r.ttsVendor = "volcano" THEN "volcano" ELSE "minimax"
    ELSE "elevenlabs"

\* LANG_CONFIG; the texts of zh-CN and ja-JP are named, not spelled out
LANG_CONFIG ==
    [l \in {"zh-CN", "en-US", "ja-JP"} |->
        IF l = "en-US"
        THEN [greeting |-> "Hello! How can I help you today?",
              failure |-> "Please hold on a moment.",
              systemPrompt |-> "You are a friendly AI voice assistant. Please respond in natural, conversational English."]
        ELSE IF l = "zh-CN"
        THEN [greeting |-> "zh-CN greeting", failure |-> "zh-CN failure",
              systemPrompt |-> "zh-CN systemPrompt"]
        ELSE [greeting |-> "ja-JP greeting", failure |-> "ja-JP failure",
              systemPrompt |-> "ja-JP systemPrompt"]]

\* property names every object literal inherits from Object.prototype;
\* LANG_CONFIG[k] is a function for them, which is truthy and has no
\* greeting, failure or systemPrompt
InheritedKeys == {"constructor", "toString", "valueOf", "hasOwnProperty"}

InheritedMember == [greeting |-> undefined, failure |-> undefined,
                    systemPrompt |-> undefined]

\* const { language = 'zh-CN' } = body
LanguageOf(r) == IF r.language = undefined THEN "zh-CN" ELSE r.language

\* LANG_CONFIG[language] || LANG_CONFIG['zh-CN']
langConfig(r) ==
    LET language == LanguageOf(r)
    IN  IF language \in DOMAIN LANG_CONFIG THEN LANG_CONFIG[language]
        ELSE IF language \in InheritedKeys THEN InheritedMember
        ELSE LANG_CONFIG["zh-CN"]

\* systemMessage that ignores the caller's prompt
systemMessage_defaultOnly(r) == langConfig(r).systemPrompt

\* content: systemPrompt || langConfig.systemPrompt
systemMessage(r) == JsOr(r.systemPrompt, langConfig(r).systemPrompt)

\* Number(v) for null, the empty string and numbers
jsNumber(v) == IF v \in {null, ""} THEN zero ELSE v

\* const { temperature = 0.7 } = body; Number(temperature)
temperatureOf(r) ==
    jsNumber(IF r.temperature = undefined THEN "0.7" ELSE r.temperature)

\* const { maxTokens = 500 } = body; Number(maxTokens)
maxTokensOf(r) ==
    jsNumber(IF r.maxTokens = undefined THEN "500" ELSE r.maxTokens)

\* an upstream request or signing call that carries nothing
NoCall == [kind |-> "none", appId |-> "", customerId |-> "",
           customerSecret |-> "", token |-> undefined, tts |-> undefined,
           greeting |-> undefined, failure |-> undefined,
           systemPrompt |-> undefined, temperature |-> undefined,
           maxTokens |-> undefined]

\* the upstream request: the app id and the Basic credentials it carries
\* and, of requestBody, the token, the TTS vendor, the texts of the
\* language and the LLM parameters (absent for the stop request)
UpstreamCall(r) ==
    LET credentials == env[AgentConfig(r)]
    IN  [NoCall EXCEPT !.kind = "upstream", !.appId = credentials.appId,
                       !.customerId = credentials.customerId,
                       !.customerSecret = credentials.customerSecret]

requestBody(r) ==
    [UpstreamCall(r) EXCEPT !.token = r.token,
                            !.tts = ttsVendorOf(r),
                            !.greeting = langConfig(r).greeting,
                            !.failure = langConfig(r).failure,
                            !.systemPrompt = systemMessage(r),
                            !.temperature = temperatureOf(r),
                            !.maxTokens = maxTokensOf(r)]

\* the secrets requestBody holds: the channel token, the LLM api_key and
\* the key of the TTS vendor (access_token for volcano)
PayloadSecrets(r) ==
    {"token", "llm.api_key"} \cup
    (IF ttsVendorOf(r) = "volcano" THEN {"tts.params.access_token"}
     ELSE {"tts.params.key"})

\* the fields AGORA_REQUEST_FULL shortens: token to 20 characters,
\* llm.api_key and tts.params.key to 10
MaskedKeys == {"token", "llm.api_key", "tts.params.key"}

\* the secrets a log call of POST writes unshortened
LoggedInFull(ty, r) ==
    IF ty = "REQUEST_BODY"
    THEN IF Truthy(r.token) THEN {"token"} ELSE {}
    ELSE IF ty = "AGORA_REQUEST_FULL" THEN PayloadSecrets(r) \ MaskedKeys
    ELSE {}

\* MissingLaunchFields with the userUid test left out
MissingLaunchFields_noUserUid(r) ==
    ~Truthy(r.channelName) \/ ~Truthy(r.agentUid)

\* if (!channelName || !agentUid || !userUid)
MissingLaunchFields(r) ==
    ~Truthy(r.channelName) \/ ~Truthy(r.agentUid) \/ ~Truthy(r.userUid)

\* the log calls of POST up to await fetch(apiUrl): EXCEPTION when the
\* body does not parse, REQUEST_BODY alone when a field is missing
LaunchLogTypes(r) ==
    IF ~r.parsed THEN <<"EXCEPTION">>
    ELSE IF MissingLaunchFields(r) THEN <<"REQUEST_BODY">>
    ELSE <<"REQUEST_BODY", "PLATFORM", "TTS_CONFIG", "AGORA_REQUEST_FULL">>

\* the entries these calls write at time t for the request w
LaunchEntries(r, t, w) ==
    [i \in 1..Len(LaunchLogTypes(r)) |->
        LogEntry(t, LaunchLogTypes(r)[i], w,
                 LoggedInFull(LaunchLogTypes(r)[i], r))]

\* the log call once fetch settled: EXCEPTION when it rejected, else
\* AGORA_RESPONSE
SettledEntry(u, t, w) ==
    LogEntry(t, IF u.failed THEN "EXCEPTION" ELSE "AGORA_RESPONSE", w, {})

\* POST up to await fetch(apiUrl): parse the body, validate it, build the
\* upstream request and send it
R_PostAgent ==
    /\ route = "POST /agent" /\ rpc = "start"
    /\ IF ~req.parsed
       THEN \* request.json() rejected: the catch clause
            /\ resp' = Json(500, [NoObj EXCEPT !.error = "Failed to start agent"],
                            TextDetails("SyntaxError"))
            /\ rpc' = "done"
            /\ UNCHANGED calls
       ELSE IF MissingLaunchFields(req)
       THEN /\ resp' = Json(400, [NoObj EXCEPT
                                    !.error = "Missing required parameters"],
                            NoDetails)
            /\ rpc' = "done"
            /\ UNCHANGED calls
       ELSE /\ calls' = Append(calls, requestBody(req))
            /\ rpc' = "fetch"
            /\ UNCHANGED resp
    /\ logs' = logAll(logs, LogCap, LaunchEntries(req, clock, 1))
    /\ UNCHANGED <<route, req, env, up, surfaced>>
    /\ UNCHANGED <<ctlVars, uidVars, idVars, clock, lg, utilVars>>

\* startAgentResponse reporting the generic text for every upstream error
startAgentResponse_generic(r, u) ==
    LET data == ParseOrRaw(u)
    IN  IF u.failed
        THEN Json(500, [NoObj EXCEPT !.error = "Failed to start agent"],
                  TextDetails("TypeError: fetch failed"))
        ELSE IF ~Ok(u.status)
        THEN Json(u.status,
                  [NoObj EXCEPT !.error = "Failed to start agent"],
                  ObjDetails(data))
        ELSE Json(200,
                  Spread([NoObj EXCEPT
                             !.agentId = JsOr(data.agent_id, data.id),
                             !.status = "started",
                             !.platform = AgentPlatform(r),
                             !.llm = "llm",
                             !.tts = ttsVendorOf(r)],
                         data),
                  NoDetails)

\* the response of POST once the upstream call settled as u: the catch
\* clause when fetch rejected; the upstream status with error and details
\* when !response.ok; else agentId, status, platform, llm, tts and the
\* upstream fields spread over them
startAgentResponse(r, u) ==
    LET data == ParseOrRaw(u)
    IN  IF u.failed
        THEN Json(500, [NoObj EXCEPT !.error = "Failed to start agent"],
                  TextDetails("TypeError: fetch failed"))
        ELSE IF ~Ok(u.status)
        THEN Json(u.status,
                  [NoObj EXCEPT !.error =
                      JsOr(JsOr(data.message, data.detail),
                           "Failed to start agent")],
                  ObjDetails(data))
        ELSE Json(200,
                  Spread([NoObj EXCEPT
                             !.agentId = JsOr(data.agent_id, data.id),
                             !.status = "started",
                             !.platform = AgentPlatform(r),
                             !.llm = "llm",
                             !.tts = ttsVendorOf(r)],
                         data),
                  NoDetails)

\* await fetch(apiUrl) settles
R_AgentSettled ==
    /\ route = "POST /agent" /\ rpc = "fetch"
    /\ \E u \in Upstreams :
         /\ up' = u
         /\ resp' = startAgentResponse(req, u)
         /\ logs' = log(logs, LogCap, SettledEntry(u, clock, 1))
    /\ rpc' = "done"
    /\ UNCHANGED <<route, req, env, calls, surfaced>>
    /\ UNCHANGED <<ctlVars, uidVars, idVars, clock, lg, utilVars>>

\* AuraPage.startCall receives the failed launch response:
\* throw new Error(err.error || <default text>); the catch clause logs it
A_LaunchRejected ==
    /\ page = "aura"
    /\ route = "POST /agent" /\ rpc = "done" /\ ~Ok(resp.status)
    /\ surfaced = undefined
    /\ surfaced' = JsOr(resp.body.error, "Agent start failed")
    /\ UNCHANGED <<route, req, env, rpc, up, calls, resp>>
    /\ UNCHANGED <<ctlVars, uidVars, idVars, logVars, utilVars>>

\* Home.startConversation receives the failed launch response:
\* throw new Error(agentData.error || 'Failed to start agent'); setError
H_LaunchRejected ==
    /\ page = "home"
    /\ route = "POST /agent" /\ rpc = "done" /\ ~Ok(resp.status)
    /\ surfaced = undefined
    /\ surfaced' = JsOr(resp.body.error, "Failed to start agent")
    /\ UNCHANGED <<route, req, env, rpc, up, calls, resp>>
    /\ UNCHANGED <<ctlVars, uidVars, idVars, logVars, utilVars>>

\* ----------------------------------------------------- DELETE /api/agent
\* DELETE up to await fetch(stopUrl): parse the body, if (!agentId) 400,
\* send the upstream leave request
R_DeleteAgent ==
    /\ route = "DELETE /agent" /\ rpc = "start"
    /\ IF ~req.parsed
       THEN /\ resp' = Json(500, [NoObj EXCEPT !.error = "Failed to stop agent"],
                            NoDetails)
            /\ rpc' = "done"
            /\ UNCHANGED calls
       ELSE IF ~Truthy(req.agentId)
       THEN /\ resp' = Json(400, [NoObj EXCEPT !.error = "Missing agentId"],
                            NoDetails)
            /\ rpc' = "done"
            /\ UNCHANGED calls
       ELSE /\ calls' = Append(calls, UpstreamCall(req))
            /\ rpc' = "fetch"
            /\ UNCHANGED resp
    /\ UNCHANGED <<route, req, env, up, surfaced>>
    /\ UNCHANGED <<ctlVars, uidVars, idVars, logVars, utilVars>>

\* stopAgentResponse without the catch clause: the handler rejects and no
\* response is made
stopAgentResponse_noCatch(u) ==
    IF u.failed \/ ~u.json
    THEN NoResp
    ELSE Json(200, Spread([NoObj EXCEPT !.status = "stopped"], u.obj),
              NoDetails)

\* the response of DELETE once the upstream call settled as u:
\* data = await response.json(); { status: 'stopped', ...data }; a rejected
\* fetch or a body that is not JSON ends in the catch clause
stopAgentResponse(u) ==
    IF u.failed \/ ~u.json
    THEN Json(500, [NoObj EXCEPT !.error = "Failed to stop agent"], NoDetails)
    ELSE Json(200, Spread([NoObj EXCEPT !.status = "stopped"], u.obj),
              NoDetails)

\* await fetch(stopUrl) settles
R_StopSettled ==
    /\ route = "DELETE /agent" /\ rpc = "fetch"
    /\ \E u \in Upstreams :
         /\ up' = u
         /\ resp' = stopAgentResponse(u)
    /\ rpc' = "done"
    /\ UNCHANGED <<route, req, env, calls, surfaced>>
    /\ UNCHANGED <<ctlVars, uidVars, idVars, logVars, utilVars>>

\* ------------------------------------------------------- POST /api/token
\* const { platform = 'shengwang' } = body
TokenPlatform(r) == IF r.platform = undefined THEN "shengwang" ELSE r.platform

\* MissingTokenFields with the uid test left out
MissingTokenFields_noUid(r) == ~Truthy(r.channelName)

\* if (!channelName || uid === undefined)
MissingTokenFields(r) == ~Truthy(r.channelName) \/ r.uid = undefined

\* MissingTokenEnv with the appCert test left out
MissingTokenEnv_noCert(p) ==
    \/ p \notin Platforms
    \/ ~Truthy(env[p].appId)

\* if (!currentEnv?.appId || !currentEnv?.appCert), currentEnv being
\* envVars[platform]
MissingTokenEnv(p) ==
    \/ p \notin Platforms
    \/ ~Truthy(env[p].appId)
    \/ ~Truthy(env[p].appCertificate)

\* lib/agora-token.ts getCredentials: every platform but 'shengwang' reads
\* the AGORA_ variables
getCredentials(p) == IF p = "shengwang" THEN env["shengwang"] ELSE env["agora"]

\* the outcomes of RtcTokenBuilder.buildTokenWithUid: a token, an empty
\* string or a throw
SignOutcomes == {[NoUp EXCEPT !.raw = "006token"],
                 NoUp,
                 [NoUp EXCEPT !.failed = TRUE]}

\* POST /api/token, which awaits nothing but request.json()
R_PostToken ==
    /\ route = "POST /token" /\ rpc = "start"
    /\ rpc' = "done"
    /\ LET platform == TokenPlatform(req)
           creds == getCredentials(platform)
       IN
       IF ~req.parsed
       THEN /\ resp' = Json(500, [NoObj EXCEPT
                                    !.error = "Failed to generate token"],
                            TextDetails("SyntaxError"))
            /\ UNCHANGED <<calls, up>>
       ELSE IF MissingTokenFields(req)
       THEN /\ resp' = Json(400, [NoObj EXCEPT
                                    !.error = "Missing channelName or uid"],
                            NoDetails)
            /\ UNCHANGED <<calls, up>>
       ELSE IF MissingTokenEnv(platform)
       THEN /\ resp' = Json(500, [NoObj EXCEPT !.error = "Missing credentials"],
                            NoDetails)
            /\ UNCHANGED <<calls, up>>
       ELSE IF ~Truthy(creds.appId) \/ ~Truthy(creds.appCertificate)
       THEN \* generateRtcToken throws before it signs
            /\ resp' = Json(500, [NoObj EXCEPT
                                    !.error = "Token generation failed"],
                            TextDetails("Error: credentials not configured"))
            /\ UNCHANGED <<calls, up>>
       ELSE \* RtcTokenBuilder.buildTokenWithUid(appId, appCertificate, ...)
            /\ calls' = Append(calls,
                               [NoCall EXCEPT
                                   !.kind = "sign", !.appId = creds.appId,
                                   !.customerSecret = creds.appCertificate])
            /\ \E s \in SignOutcomes :
                 /\ up' = s
                 /\ resp' =
                      IF s.failed
                      THEN Json(500, [NoObj EXCEPT
                                        !.error = "Token generation failed"],
                                TextDetails("Error"))
                      ELSE IF ~Truthy(s.raw)
                      THEN Json(500, [NoObj EXCEPT !.error =
                                  "Token generation returned empty string"],
                                NoDetails)
                      ELSE Json(200, [NoObj EXCEPT !.token = s.raw,
                                         !.appId = creds.appId,
                                         !.channelName = req.channelName,
                                         !.uid = req.uid,
                                         !.platform = platform],
                                NoDetails)
    /\ UNCHANGED <<route, req, env, surfaced>>
    /\ UNCHANGED <<ctlVars, uidVars, idVars, logVars, utilVars>>

NextApi ==
    \/ R_PostAgent
    \/ R_AgentSettled
    \/ A_LaunchRejected
    \/ H_LaunchRejected
    \/ R_DeleteAgent
    \/ R_StopSettled
    \/ R_PostToken

\* ============================================================ repeated stop
\* most DELETE requests for one agent id followed in one behaviour
MaxStops == 2

\* the caller sends the same DELETE request again (Home.cleanup runs for
\* the stop button and again for the unmount while agentIdRef still holds
\* the id)
R_StopAgain ==
    /\ route = "DELETE /agent" /\ rpc = "done"
    /\ Len(calls) >= 1 /\ Len(calls) < MaxStops
    /\ rpc' = "start"
    /\ up' = NoUp
    /\ resp' = NoResp
    /\ UNCHANGED <<route, req, env, calls, surfaced>>
    /\ UNCHANGED <<ctlVars, uidVars, idVars, logVars, utilVars>>

NextStop == R_DeleteAgent \/ R_StopSettled \/ R_StopAgain

\* ========================================================= launch requests
\* launch requests with every field the payload is built from
ConfigRequests ==
    {[NoReq EXCEPT !.parsed = TRUE, !.channelName = "ch", !.agentUid = "42",
                   !.userUid = "7", !.token = "006agent-token",
                   !.platform = p, !.ttsVendor = v, !.language = l,
                   !.systemPrompt = sp, !.temperature = t, !.maxTokens = m] :
        p \in {undefined} \cup Platforms,
        v \in {undefined, "elevenlabs", "minimax", "volcano", "azure"},
        l \in {undefined, "zh-CN", "en-US", "ja-JP", "en", "constructor"},
        sp \in {undefined, "", "Answer in one sentence."},
        t \in {undefined, null, zero, "0.2"},
        m \in {undefined, "100"}}

NextLaunch == R_PostAgent \/ R_AgentSettled

\* ============================================================== shared log
\* two POST /api/agent handlers append to the one buffer while GET reads it
Sessions == {1, 2}

ValidLaunch == [NoReq EXCEPT !.parsed = TRUE, !.channelName = "ch",
                             !.agentUid = "42", !.userUid = "7",
                             !.token = "006agent-token"]

\* a body that does not parse, one without the required fields, a valid one
LogRequests == {NoReq, [NoReq EXCEPT !.parsed = TRUE], ValidLaunch}

\* cap: the cap of the build; pc, rq: position and request of each handler;
\* read, count, entries: GET was answered, with this body; settled: both
\* handlers had returned by then
IdleLg == [cap |-> LogCap, pc |-> [s \in Sessions |-> "none"],
           rq |-> [s \in Sessions |-> NoReq], read |-> FALSE,
           settled |-> FALSE, count |-> 0, entries |-> <<>>]

\* handler s runs POST up to await fetch(apiUrl); the clock may have moved
\* on since the last append
L_Post(s) ==
    /\ lg.pc[s] = "start"
    /\ \E dt \in {0, 1} :
         /\ clock' = clock + dt
         /\ logs' = logAll(logs, lg.cap, LaunchEntries(lg.rq[s], clock', s))
    /\ lg' = [lg EXCEPT !.pc[s] =
                 IF lg.rq[s].parsed /\ ~MissingLaunchFields(lg.rq[s])
                 THEN "fetch" ELSE "done"]
    /\ UNCHANGED <<ctlVars, uidVars, idVars, apiVars, utilVars>>

\* the fetch of handler s settles
L_Settled(s) ==
    /\ lg.pc[s] = "fetch"
    /\ \E dt \in {0, 1}, failed \in BOOLEAN :
         /\ clock' = clock + dt
         /\ logs' = log(logs, lg.cap,
                        SettledEntry([NoUp EXCEPT !.failed = failed],
                                     clock', s))
    /\ lg' = [lg EXCEPT !.pc[s] = "done"]
    /\ UNCHANGED <<ctlVars, uidVars, idVars, apiVars, utilVars>>

\* NextResponse.json({ logs, count: logs.length })
getLogs(buf) == [entries |-> buf, count |-> Len(buf)]

\* GET /api/agent
L_Get ==
    /\ ~lg.read
    /\ lg' = [lg EXCEPT !.read = TRUE,
                        !.settled = \A s \in Sessions : lg.pc[s] = "done",
                        !.count = getLogs(logs).count,
                        !.entries = getLogs(logs).entries]
    /\ UNCHANGED <<ctlVars, uidVars, idVars, apiVars, logs, clock, utilVars>>

NextLog == L_Get \/ \E s \in Sessions : L_Post(s) \/ L_Settled(s)

\* ========================================================== duration timer
\* largest duration followed
MaxDuration == 2

\* the effect on [status]: the cleanup of the run before clears its
\* interval; under connected or talking a new interval is set, otherwise
\* the interval is cleared and, when idle, setDuration(0)
T_Effect ==
    /\ page = "aura" /\ Quiet
    /\ timer.seen # status
    /\ timer' = [dur |-> IF status = "idle" THEN 0 ELSE timer.dur,
                 on |-> status \in {"connected", "talking"},
                 seen |-> status]
    /\ UNCHANGED <<ctlVars, uidVars, idVars, apiVars, logVars, chan, pwd,
                debugLogs>>

\* the interval fires: setDuration(prev => prev + 1)
T_Tick ==
    /\ page = "aura" /\ Quiet
    /\ timer.on
    /\ timer.dur < MaxDuration
    /\ timer' = setDuration(timer, timer.dur + 1)
    /\ UNCHANGED <<ctlVars, uidVars, idVars, apiVars, logVars, chan, pwd,
                debugLogs>>

NextTimer == AuraNext \/ T_Effect \/ T_Tick

\* ============================================================ password gate
\* utils/password.ts.  process.env.NEXT_PUBLIC_VOICE_PASSWORD is a string,
\* or undefined when the variable is unset.
Passwords == {undefined, "", "test123", "correct-password", "0"}

\* what the login form may hand to validatePassword
PasswordInputs == {undefined, "", "test123", "correct-password",
                   "wrong-password", "0"}

\* return !!password && password.length > 0
isPasswordConfigured(password) == Truthy(password) /\ password # ""

\* validatePassword with the guard on the configured password left out
validatePassword_noGuard(password, input) == input = password

\* if (!password) return false; return input === password
validatePassword(password, input) ==
    IF ~Truthy(password) THEN FALSE ELSE input = password

\* env: the configured password; input: the text entered; valid and
\* configured: what the two functions returned once called
IdlePwd == [env |-> undefined, input |-> "", calledV |-> FALSE,
            valid |-> FALSE, calledC |-> FALSE, configured |-> FALSE]

\* a call of validatePassword(input)
P_Validate ==
    /\ ~pwd.calledV
    /\ pwd' = [pwd EXCEPT !.calledV = TRUE,
                          !.valid = validatePassword(pwd.env, pwd.input)]
    /\ UNCHANGED <<ctlVars, uidVars, idVars, apiVars, logVars, timer, chan,
                   debugLogs>>

\* a call of isPasswordConfigured()
P_IsConfigured ==
    /\ ~pwd.calledC
    /\ pwd' = [pwd EXCEPT !.calledC = TRUE,
                          !.configured = isPasswordConfigured(pwd.env)]
    /\ UNCHANGED <<ctlVars, uidVars, idVars, apiVars, logVars, timer, chan,
                   debugLogs>>

NextPwd == P_Validate \/ P_IsConfigured

\* ===================================================== generateChannelName
\* the channel-name utility.  A string is the sequence of its characters.
\* largest value of the wall clock followed
MaxClock == 12

\* String(n) for a non-negative integer
DigitChars == <<"0", "1", "2", "3", "4", "5", "6", "7", "8", "9">>

RECURSIVE NumberToString(_)
NumberToString(n) ==
    IF n < 10 THEN <<DigitChars[n + 1]>>
    ELSE NumberToString(n \div 10) \o <<DigitChars[(n % 10) + 1]>>

\* the value of a digit character, -1 for any other character
DigitValue(c) ==
    IF \E d \in 1..10 : DigitChars[d] = c
    THEN (CHOOSE d \in 1..10 : DigitChars[d] = c) - 1
    ELSE -1

\* parseInt(s) for a string of digits; -1 stands for NaN
RECURSIVE parseInt(_)
parseInt(s) ==
    IF s = <<>> THEN -1
    ELSE LET last == DigitValue(s[Len(s)])
             front == SubSeq(s, 1, Len(s) - 1)
         IN  IF last = -1 THEN -1
             ELSE IF front = <<>> THEN last
             ELSE IF parseInt(front) = -1 THEN -1
             ELSE 10 * parseInt(front) + last

\* the call without an argument
NoPrefix == <<undefined>>

\* the argument of a call
PrefixArgs == {NoPrefix, <<>>, <<"t">>, <<"t", "e", "s", "t">>,
               <<"a", "-", "7">>}

\* Math.random().toString(36).slice(2, 8): up to six characters of 0-9a-z
RandomSuffixes == {<<>>, <<"5">>, <<"k", "3", "x", "9", "q", "b">>}

\* prefix: string = 'aura'
PrefixOf(arg) == IF arg = NoPrefix THEN <<"a", "u", "r", "a">> ELSE arg

\* generateChannelName with the random part put before the timestamp
generateChannelName_randomFirst(arg, now, rnd) ==
    PrefixOf(arg) \o <<"-">> \o rnd \o <<"-">> \o NumberToString(now)

\* `${prefix}-${Date.now()}-${Math.random().toString(36).slice(2, 8)}`
generateChannelName(arg, now, rnd) ==
    PrefixOf(arg) \o <<"-">> \o NumberToString(now) \o <<"-">> \o rnd

\* pc: idle, called (before was read), returned (name holds the result),
\* done (after was read)
IdleChan == [pc |-> "idle", arg |-> NoPrefix, before |-> 0, name |-> <<>>,
             after |-> 0]

\* the wall clock advances by a millisecond
N_Tick ==
    /\ clock < MaxClock
    /\ clock' = clock + 1
    /\ UNCHANGED <<ctlVars, uidVars, idVars, apiVars, logs, lg, utilVars>>

\* const before = Date.now()
N_Before ==
    /\ chan.pc = "idle"
    /\ chan' = [chan EXCEPT !.pc = "called", !.before = clock]
    /\ UNCHANGED <<ctlVars, uidVars, idVars, apiVars, logVars, timer, pwd,
                   debugLogs>>

\* const name = generateChannelName(prefix)
N_Generate ==
    /\ chan.pc = "called"
    /\ \E rnd \in RandomSuffixes :
         chan' = [chan EXCEPT !.pc = "returned",
                              !.name = generateChannelName(chan.arg, clock,
                                                           rnd)]
    /\ UNCHANGED <<ctlVars, uidVars, idVars, apiVars, logVars, timer, pwd,
                   debugLogs>>

\* const after = Date.now()
N_After ==
    /\ chan.pc = "returned"
    /\ chan' = [chan EXCEPT !.pc = "done", !.after = clock]
    /\ UNCHANGED <<ctlVars, uidVars, idVars, apiVars, logVars, timer, pwd,
                   debugLogs>>

NextChan == N_Tick \/ N_Before \/ N_Generate \/ N_After

\* ===================================================== token, then launch
\* An API client that requests the agent's token from POST /token and then
\* starts the agent with it through POST /agent, giving both requests the
\* same platform field.

\* deployments whose two platforms have credentials of their own
PlatformCreds(p) ==
    [appId |-> IF p = "agora" THEN "agora-app" ELSE "shengwang-app",
     appCertificate |-> IF p = "agora" THEN "agora-cert" ELSE "shengwang-cert",
     customerId |-> IF p = "agora" THEN "agora-cid" ELSE "shengwang-cid",
     customerSecret |-> IF p = "agora" THEN "agora-secret"
                        ELSE "shengwang-secret"]

PlatformEnvs ==
    {[p \in Platforms |-> PlatformCreds(p)]} \cup
    {[p \in Platforms |-> IF p = q THEN [PlatformCreds(p) EXCEPT
                                            !.customerId = ""]
                          ELSE PlatformCreds(p)] : q \in Platforms}

\* the client received the token and sends the launch request for the
\* same channel, uid and platform field
R_LaunchWithToken ==
    /\ route = "POST /token" /\ rpc = "done"
    /\ resp.status = 200
    /\ route' = "POST /agent"
    /\ req' = [NoReq EXCEPT !.parsed = TRUE,
                            !.channelName = req.channelName,
                            !.agentUid = req.uid, !.userUid = "7",
                            !.token = resp.body.token,
                            !.platform = req.platform]
    /\ rpc' = "start"
    /\ resp' = NoResp
    /\ up' = NoUp
    /\ UNCHANGED <<env, calls, surfaced>>
    /\ UNCHANGED <<ctlVars, uidVars, idVars, logVars, utilVars>>

NextPair ==
    \/ R_PostToken
    \/ R_LaunchWithToken
    \/ R_PostAgent
    \/ R_AgentSettled

\* ========================================================= the page's log
\* Home.addLog / debugLogs and AuraPage.addLog / logs.  An entry is the
\* number of the addLog call that made it; count is the calls so far.

\* the number of addLog calls followed
MaxAppends == 55

\* Home.addLog: prev.slice(-50)
DebugLogKeep == 50

IdleDebugLogs == [entries |-> <<>>, count |-> 0]

\* prev.slice(-n): the last n elements of prev, all of them when fewer
sliceLast(prev, n) ==
    IF Len(prev) <= n THEN prev ELSE SubSeq(prev, Len(prev) - n + 1, Len(prev))

\* Home.addLog: setDebugLogs(prev => [...prev.slice(-50), entry])
H_addLog(prev, entry) == Append(sliceLast(prev, DebugLogKeep), entry)

\* AuraPage.addLog: setLogs(prev => [...prev, entry])
A_addLog(prev, entry) == Append(prev, entry)

\* a call of addLog on the page shown
D_AddLog ==
    /\ debugLogs.count < MaxAppends
    /\ LET entry == debugLogs.count + 1
       IN  debugLogs' =
             [entries |-> IF page = "home"
                          THEN H_addLog(debugLogs.entries, entry)
                          ELSE A_addLog(debugLogs.entries, entry),
              count |-> entry]
    /\ UNCHANGED <<ctlVars, uidVars, idVars, apiVars, logVars, timer, chan, pwd>>

\* setDebugLogs([]) / setLogs([]): the clear button of either page and the
\* first lines of Home.startConversation
D_Clear ==
    /\ debugLogs.entries # <<>>
    /\ debugLogs' = [debugLogs EXCEPT !.entries = <<>>]
    /\ UNCHANGED <<ctlVars, uidVars, idVars, apiVars, logVars, timer, chan, pwd>>

NextDebugLogs == D_AddLog \/ D_Clear

\* ==================================================================== spec
CtlInit ==
    /\ mounted = TRUE
    /\ status = "idle"
    /\ state = "idle"
    /\ isSpeaking = FALSE
    /\ clientRef = Null
    /\ localTrackRef = Null
    /\ audioTrackRef = Null
    /\ agentIdRef = Null
    /\ task = [t \in Tasks |-> FreeTask]
    /\ agent = [t \in Tasks |-> "none"]
    /\ stopReq = {}
    /\ tornDown = {}
    /\ selectedPlatform = InitialPlatform

\* no session followed for its ids
IdsIdle == sess = IdleSess

\* an empty log buffer that no handler appends to
LogIdle ==
    /\ logs = <<>>
    /\ clock = 0
    /\ lg = IdleLg

\* no timer running, no utility function called
UtilIdle ==
    /\ timer = IdleTimer
    /\ chan = IdleChan
    /\ pwd = IdlePwd
    /\ debugLogs = IdleDebugLogs

\* no API route handler running
ApiIdle ==
    /\ route = "none"
    /\ req = NoReq
    /\ env = [p \in Platforms |-> FullCreds]
    /\ rpc = "none"
    /\ up = NoUp
    /\ calls = <<>>
    /\ resp = NoResp
    /\ surfaced = undefined

Init ==
    /\ page \in {"aura", "home"}
    /\ CtlInit
    /\ draws = <<0, 1>>
    /\ uidResult = <<>>
    /\ IdsIdle
    /\ ApiIdle
    /\ LogIdle
    /\ UtilIdle

Next == AuraNext \/ HomeNext

Spec == Init /\ [][Next]_vars

\* the continuations of the handler invocation t: an awaited call (SDK
\* import, token request, join, track, publish, agent start or stop,
\* leave) settles, or the catch clause goes on
AuraStep(t) ==
    \/ A_Imported(t) \/ A_UserToken(t) \/ A_Joined(t) \/ A_TrackCreated(t)
    \/ A_Published(t) \/ A_AgentToken(t) \/ A_AgentStarted(t)
    \/ A_Catch(t) \/ A_Left(t)

HomeStep(t) ==
    \/ H_Imported(t) \/ H_UserToken(t) \/ H_AgentToken(t) \/ H_Joined(t)
    \/ H_TrackCreated(t) \/ H_Published(t) \/ H_AgentStarted(t)
    \/ H_AgentStopped(t) \/ H_Left(t)

\* the controllers when every awaited call eventually returns or fails and
\* the event loop runs every continuation; what the user and the agent do
\* is left free
SpecLive ==
    /\ Init /\ [][Next]_vars
    /\ \A t \in Tasks : WF_vars(AuraStep(t)) /\ WF_vars(HomeStep(t))

\* generateUids alone, for every sequence of draws
InitUid ==
    /\ page = "aura"
    /\ CtlInit
    /\ draws \in DrawSeqs
    /\ uidResult = <<>>
    /\ IdsIdle
    /\ ApiIdle
    /\ LogIdle
    /\ UtilIdle

NextUid == CallGenerateUids

SpecUid == InitUid /\ [][NextUid]_vars

\* the participant ids of one session of either page, for every sequence
\* of draws
InitIds ==
    /\ page \in {"aura", "home"}
    /\ CtlInit
    /\ draws \in DrawSeqs
    /\ uidResult = <<>>
    /\ IdsIdle
    /\ ApiIdle
    /\ LogIdle
    /\ UtilIdle

SpecIds == InitIds /\ [][NextIds]_vars

\* one request to one API route, for every request body and environment;
\* page is the page that sent it
InitApi ==
    /\ page \in {"aura", "home"}
    /\ CtlInit
    /\ draws = <<0, 1>>
    /\ uidResult = <<>>
    /\ IdsIdle
    /\ route \in Routes
    /\ req \in RequestsOf(route)
    /\ env \in Envs
    /\ rpc = "start"
    /\ up = NoUp
    /\ calls = <<>>
    /\ resp = NoResp
    /\ surfaced = undefined
    /\ LogIdle
    /\ UtilIdle

SpecApi == InitApi /\ [][NextApi]_vars

\* the two functions of the password gate, for every configured password
\* and every input
InitPwd ==
    /\ page = "aura"
    /\ CtlInit
    /\ draws = <<0, 1>>
    /\ uidResult = <<>>
    /\ IdsIdle
    /\ ApiIdle
    /\ LogIdle
    /\ timer = IdleTimer
    /\ chan = IdleChan
    /\ debugLogs = IdleDebugLogs
    /\ pwd \in {[IdlePwd EXCEPT !.env = e, !.input = i] :
                   e \in Passwords, i \in PasswordInputs}

SpecPwd == InitPwd /\ [][NextPwd]_vars

\* one call of generateChannelName between two readings of the clock, for
\* every argument
InitChan ==
    /\ page = "aura"
    /\ CtlInit
    /\ draws = <<0, 1>>
    /\ uidResult = <<>>
    /\ IdsIdle
    /\ ApiIdle
    /\ logs = <<>>
    /\ clock \in 0..MaxClock
    /\ lg = IdleLg
    /\ timer = IdleTimer
    /\ debugLogs = IdleDebugLogs
    /\ chan \in {[IdleChan EXCEPT !.arg = a] : a \in PrefixArgs}
    /\ pwd = IdlePwd

SpecChan == InitChan /\ [][NextChan]_vars

\* repeated DELETE requests for one agent id, for every body and environment
InitStop ==
    /\ page = "home"
    /\ CtlInit
    /\ draws = <<0, 1>>
    /\ uidResult = <<>>
    /\ IdsIdle
    /\ route = "DELETE /agent"
    /\ req \in StopRequests
    /\ env \in Envs
    /\ rpc = "start"
    /\ up = NoUp
    /\ calls = <<>>
    /\ resp = NoResp
    /\ surfaced = undefined
    /\ LogIdle
    /\ UtilIdle

SpecStop == InitStop /\ [][NextStop]_vars

\* one launch request with all credentials configured, for every choice of
\* platform, TTS vendor, language, prompt and LLM parameters
InitLaunch ==
    /\ page = "home"
    /\ CtlInit
    /\ draws = <<0, 1>>
    /\ uidResult = <<>>
    /\ IdsIdle
    /\ route = "POST /agent"
    /\ req \in ConfigRequests
    /\ env = [p \in Platforms |-> FullCreds]
    /\ rpc = "start"
    /\ up = NoUp
    /\ calls = <<>>
    /\ resp = NoResp
    /\ surfaced = undefined
    /\ LogIdle
    /\ UtilIdle

SpecLaunch == InitLaunch /\ [][NextLaunch]_vars

\* the playground page with its platform select
InitPlatform ==
    /\ page = "home"
    /\ CtlInit
    /\ draws = <<0, 1>>
    /\ uidResult = <<>>
    /\ IdsIdle
    /\ ApiIdle
    /\ LogIdle
    /\ UtilIdle

NextPlatform == HomeNext \/ H_SetPlatform

SpecPlatform == InitPlatform /\ [][NextPlatform]_vars

\* the log of either page, empty at mount
InitDebugLogs ==
    /\ page \in {"aura", "home"}
    /\ CtlInit
    /\ draws = <<0, 1>>
    /\ uidResult = <<>>
    /\ IdsIdle
    /\ ApiIdle
    /\ LogIdle
    /\ UtilIdle

SpecDebugLogs == InitDebugLogs /\ [][NextDebugLogs]_vars

\* a token request followed by the launch request made with its token, for
\* every token request and every deployment in PlatformEnvs
InitPair ==
    /\ page \in {"aura", "home"}
    /\ CtlInit
    /\ draws = <<0, 1>>
    /\ uidResult = <<>>
    /\ IdsIdle
    /\ route = "POST /token"
    /\ req \in TokenRequests
    /\ env \in PlatformEnvs
    /\ rpc = "start"
    /\ up = NoUp
    /\ calls = <<>>
    /\ resp = NoResp
    /\ surfaced = undefined
    /\ LogIdle
    /\ UtilIdle

SpecPair == InitPair /\ [][NextPair]_vars

\* two handlers and a reader on a buffer that earlier requests filled up
\* to n entries
InitLog ==
    /\ page = "home"
    /\ CtlInit
    /\ draws = <<0, 1>>
    /\ uidResult = <<>>
    /\ IdsIdle
    /\ ApiIdle
    /\ lg \in {[IdleLg EXCEPT !.cap = c,
                              !.pc = [s \in Sessions |-> "start"],
                              !.rq = f] :
                  c \in {LogCap, DraftLogCap},
                  f \in [Sessions -> LogRequests]}
    /\ \E n \in {0} \cup ((lg.cap - 5)..lg.cap) :
         /\ logs = [i \in 1..n |-> LogEntry(i, "AGORA_RESPONSE", 0, {})]
         /\ clock = n
    /\ UtilIdle

SpecLog == InitLog /\ [][NextLog]_vars

\* the AuraPage controller with its duration timer
InitTimer ==
    /\ page = "aura"
    /\ CtlInit
    /\ draws = <<0, 1>>
    /\ uidResult = <<>>
    /\ IdsIdle
    /\ ApiIdle
    /\ LogIdle
    /\ UtilIdle

SpecTimer == InitTimer /\ [][NextTimer]_vars

\* ================================================================ properties
Connected ==
    \/ page = "aura" /\ status = "connected"
    \/ page = "home" /\ state = "connected"

\* a start invocation that ended in its catch clause
FailedStart(t) ==
    /\ task[t].kind = "start"
    /\ task[t].pc \in Terminal
    /\ agent[t] = "none"

\* C1: the status becomes Connected only in the step in which the agent
\* launch call of a start returns success, and that start holds the human
\* participant's grant and the agent participant's grant.
C1_ConnectedOnlyAfterGrantsAndLaunch ==
    [][(Connected' /\ ~Connected) =>
         \E t \in Tasks :
            /\ task[t].kind = "start" /\ task[t].pc = "agent"
            /\ task[t].userTok /\ task[t].agentTok
            /\ agent[t] = "none" /\ agent'[t] = "running"]_vars

\* C1 witness: a connected controller whose agent launch succeeded
C1_Witness ==
    Connected /\ \E t \in Tasks : task[t].pc = "done" /\ agent[t] = "running"

C3_FailedStartReleasesAll ==
    (\A u \in Tasks : /\ task[u].track # "closeFailed"
                      /\ task[u].client # "leaveFailed")
    => \A t \in Tasks :
          FailedStart(t) => /\ task[t].client # "joined"
                            /\ task[t].track # "live"

\* C4: a teardown that ends while the client ref is held ends from its
\* leave step, whatever the earlier steps did, and never by rethrowing.
C4_TeardownStepsIndependent ==
    [][\A t \in Tasks :
         (/\ task[t].pc \notin Terminal
          /\ task'[t].pc \in Terminal
          /\ ~(task[t].pc = "agent" /\ agent'[t] = "running"))
         => /\ task'[t].pc # "thrown"
            /\ (clientRef # Null => task[t].pc = "leave")]_vars

\* C5: when a hangup ends, however its stop-agent call and its leave
\* call went, the controller is Idle (a hangup whose track release threw
\* is not counted).
C5_HangupReachesIdle ==
    [][\A t \in Tasks :
         (/\ task'[t].kind = "stop"
          /\ task[t].pc \notin Terminal
          /\ task'[t].pc \in Terminal
          /\ \A u \in Tasks : task'[u].track # "closeFailed"
          /\ mounted')
         => IF page = "aura" THEN status' = "idle" ELSE state' = "idle"]_vars

\* C6: once the client of a session has left the channel, the agent that
\* session started has been asked to stop, and only started agents are.
C6_StartedAgentsAskedToStop ==
    /\ \A t \in Tasks :
          (/\ agent[t] \in {"running", "speaking"}
           /\ task[t].client \in {"left", "leaveFailed"})
          => t \in stopReq
    /\ \A t \in stopReq : agent[t] # "none"

\* C7: the AuraPage status changes only along validTransitions.
C7_StatusFollowsTable ==
    [][page = "aura" =>
         (status' = status \/ isValidTransition(status, status'))]_vars

\* C8: while Connected the remote participant starting to publish moves
\* the status to Talking; while Talking its stopping moves it back to
\* Connected.
C8_RemoteAudioDrivesTalking ==
    [][\A t \in Tasks :
         /\ (page = "aura" /\ status = "connected"
             /\ agent[t] = "running" /\ agent'[t] = "speaking")
               => status' = "talking"
         /\ (page = "aura" /\ status = "talking"
             /\ agent[t] = "speaking" /\ agent'[t] = "running"
             /\ task'[t].lis)
               => status' = "connected"]_vars

\* C9: a start whose client or track a teardown took while one of its
\* requests was in flight acquires nothing more (no join, no track, no
\* agent) and does not set the status to Connected.
C9_StaleResultsDiscarded ==
    [][\A t \in tornDown :
         /\ task'[t].client = "joined" => task[t].client = "joined"
         /\ task'[t].track = "live" => task[t].track = "live"
         /\ agent'[t] = "running" => agent[t] # "none"
         /\ (task[t].pc = "agent" /\ task'[t].pc = "done")
               => ~(Connected' /\ ~Connected)]_vars

\* C10: generateUids() returns a pair of different ids.
C10_UidsDiffer ==
    uidResult # <<>> => uidResult[1] # uidResult[2]

\* C10 witness: a pair returned after the second draw collided with the
\* first and was drawn again
C10_Witness ==
    /\ uidResult # <<>>
    /\ draws[1] = draws[2]

\* C11: in a session of either page the id sent for the human (token
\* request, channel join, remote uid of the launch) is never an id sent
\* for the agent (agent token request, agent uid of the launch).
C11_ParticipantIdsDiffer ==
    LET human == {sess.tokenUid, sess.joinUid, sess.launchUserUid} \ {NoUid}
        agnt == {sess.agentTokenUid, sess.launchAgentUid} \ {NoUid}
    IN  human \cap agnt = {}

\* C12: a start whose human token request failed goes to its catch clause
\* and reports the failure (AuraPage: status Error; Home: state Idle); a
\* start joins the channel, creates its track, sends the launch request
\* or gets an agent only while it holds the human token, which only an
\* ok answer to the human token request gives.
C12_HumanGrantFailureAborts ==
    [][\A t \in Tasks :
         /\ (/\ task[t].kind = "start" /\ task[t].pc = "userToken"
             /\ task'[t].pc # "userToken" /\ ~task'[t].userTok)
            => /\ task'[t].pc \notin
                    {"join", "track", "publish", "agentToken", "agent"}
               /\ task'[t].client # "joined"
               /\ IF page = "aura" THEN status' = "error"
                  ELSE (mounted => state' = "idle")
         /\ (task'[t].pc = "join" /\ task[t].pc # "join")
               => task'[t].userTok
         /\ (task'[t].client = "joined" /\ task[t].client # "joined")
               => task[t].userTok
         /\ (task'[t].track = "live" /\ task[t].track # "live")
               => task[t].userTok
         /\ (task'[t].pc = "agent" /\ task[t].pc # "agent")
               => task[t].userTok
         /\ (agent'[t] # "none" /\ agent[t] = "none")
               => task[t].userTok
         /\ (task'[t].userTok /\ ~task[t].userTok)
               => task[t].pc = "userToken"]_vars

\* C12 witness: AuraPage in the catch clause of a start whose human token
\* request failed: client created, never joined, no track, no agent
C12_Witness ==
    /\ page = "aura" /\ status = "error"
    /\ \E t \in Tasks :
         /\ task[t].kind = "start" /\ task[t].pc = "catch"
         /\ ~task[t].userTok
         /\ task[t].client = "created" /\ task[t].track = "none"
         /\ agent[t] = "none"

\* the upstream call of POST /agent was answered with a non-2xx status
\* and a JSON object
UpstreamError ==
    /\ route = "POST /agent" /\ rpc = "done" /\ calls # <<>>
    /\ ~up.failed /\ up.json /\ ~Ok(up.status)

\* C13 as stated: an upstream non-2xx answer whose JSON body carries a
\* message m, whatever m, makes POST /agent answer with the same status,
\* error m and the upstream body as details, and the page that sent the
\* request surfaces m.
C13_UpstreamErrorVerbatimAnyMessage ==
    (UpstreamError /\ up.obj.message # undefined)
    => /\ resp.status = up.status
       /\ resp.body.error = up.obj.message
       /\ resp.details = ObjDetails(up.obj)
       /\ surfaced # undefined => surfaced = up.obj.message

\* C13 amended: the same for a non-empty message m.
C13_UpstreamErrorVerbatim ==
    (UpstreamError /\ Truthy(up.obj.message))
    => /\ resp.status = up.status
       /\ resp.body.error = up.obj.message
       /\ resp.details = ObjDetails(up.obj)
       /\ surfaced # undefined => surfaced = up.obj.message

\* C13 witness: upstream 500 {message: "X"} answered as 500 with error
\* "X", surfaced as "X" by the page
C13_Witness ==
    /\ UpstreamError /\ up.status = 500 /\ up.obj.message = "X"
    /\ resp.status = 500 /\ resp.body.error = "X"
    /\ surfaced = "X"

\* C14: when the upstream call of POST /agent fails in transport (fetch
\* rejects, or the body is not JSON) the answer is 500 with the generic
\* error, never a started agent, and for a body that is not JSON the
\* details carry the raw body text.
C14_TransportFailureIs500 ==
    (/\ route = "POST /agent" /\ rpc = "done" /\ calls # <<>>
     /\ (up.failed \/ ~up.json))
    => /\ resp.status = 500
       /\ resp.body.error = "Failed to start agent"
       /\ resp.body.status # "started"
       /\ ~up.failed => /\ resp.details.kind = "object"
                        /\ resp.details.obj.rawText = up.raw

\* C15: POST and DELETE /agent send an upstream request only with a
\* non-empty app id, customer id and customer secret.
C15_NoUpstreamWithoutCredentials ==
    \A i \in DOMAIN calls :
       calls[i].kind = "upstream"
       => /\ calls[i].appId # ""
          /\ calls[i].customerId # ""
          /\ calls[i].customerSecret # ""

\* the platform POST /token resolved is a supported one and its app id or
\* its app certificate is empty
TokenCredentialsEmpty ==
    /\ route = "POST /token"
    /\ TokenPlatform(req) \in Platforms
    /\ \/ env[TokenPlatform(req)].appId = ""
       \/ env[TokenPlatform(req)].appCertificate = ""

\* C16: with an empty app id or app certificate for the requested
\* platform POST /token never calls the signing primitive, and a request
\* carrying channelName and uid is answered 500 with the missing
\* credentials error.
C16_TokenConfigError ==
    TokenCredentialsEmpty
    => /\ calls = <<>>
       /\ (/\ rpc = "done" /\ req.parsed
           /\ Truthy(req.channelName) /\ req.uid # undefined)
          => /\ resp.status = 500
             /\ resp.body.error = "Missing credentials"

\* C16 witness: a well-formed shengwang token request answered 500 while
\* the shengwang app certificate is empty
C16_Witness ==
    /\ TokenCredentialsEmpty /\ rpc = "done"
    /\ req.parsed /\ req.channelName = "ch" /\ req.uid = "7"
    /\ TokenPlatform(req) = "shengwang"
    /\ env["shengwang"].appId # "" /\ env["shengwang"].appCertificate = ""
    /\ resp.status = 500

\* C17: POST /agent with channelName, agentUid or userUid missing sends
\* no upstream request and answers 400 'Missing required parameters'.
C17_MissingLaunchFieldsRejected ==
    (/\ route = "POST /agent" /\ req.parsed
     /\ \/ req.channelName = undefined
        \/ req.agentUid = undefined
        \/ req.userUid = undefined)
    => /\ calls = <<>>
       /\ rpc = "done" => /\ resp.status = 400
                          /\ resp.body.error = "Missing required parameters"

\* C17 witness: a launch request lacking only userUid, answered 400
C17_Witness ==
    /\ route = "POST /agent" /\ rpc = "done" /\ req.parsed
    /\ req.channelName = "ch" /\ req.agentUid = "42"
    /\ req.userUid = undefined
    /\ resp.status = 400 /\ calls = <<>>

\* C18: POST /token with channelName or uid missing signs no token and
\* answers 400 'Missing channelName or uid'.
C18_MissingTokenFieldsRejected ==
    (/\ route = "POST /token" /\ req.parsed
     /\ (req.channelName = undefined \/ req.uid = undefined))
    => /\ calls = <<>>
       /\ rpc = "done" => /\ resp.status = 400
                          /\ resp.body.error = "Missing channelName or uid"

\* C18 witness: a token request lacking only uid, answered 400 although
\* the credentials are there
C18_Witness ==
    /\ route = "POST /token" /\ rpc = "done" /\ req.parsed
    /\ req.channelName = "ch" /\ req.uid = undefined
    /\ ~TokenCredentialsEmpty
    /\ resp.status = 400 /\ calls = <<>>

\* C19: when the upstream start answers 2xx with a JSON object naming the
\* agent, POST /agent answers 200 with agentId the upstream agent id,
\* status "started" and platform the requested platform.
C19_LaunchResponseShape ==
    (/\ route = "POST /agent" /\ rpc = "done" /\ calls # <<>>
     /\ ~up.failed /\ up.json /\ Ok(up.status)
     /\ Truthy(JsOr(up.obj.agent_id, up.obj.id)))
    => /\ resp.status = 200
       /\ resp.body.agentId = JsOr(up.obj.agent_id, up.obj.id)
       /\ resp.body.status = "started"
       /\ resp.body.platform = AgentPlatform(req)

\* C20: DELETE /agent without agentId answers 400 'Missing agentId' and
\* sends nothing upstream; with an agentId it sends the stop request, and
\* once the upstream has answered it responds 200 with status "stopped"
\* and the upstream fields.
C20_StopResponse ==
    (route = "DELETE /agent" /\ req.parsed)
    => /\ req.agentId = undefined
          => /\ calls = <<>>
             /\ rpc = "done" => /\ resp.status = 400
                                /\ resp.body.error = "Missing agentId"
       /\ Truthy(req.agentId)
          => /\ rpc # "start" => Len(calls) = 1
             /\ (rpc = "done" /\ ~up.failed)
                => /\ resp.status = 200
                   /\ resp.body.status = "stopped"
                   /\ \A k \in JKeys \ {"status"} :
                         resp.body[k] = ParseOrRaw(up)[k]

C22_LogBufferBounded ==
    [][/\ Len(logs') <= lg.cap
       /\ logs' # logs =>
            \E k \in 1..4 :
               LET kept == Len(logs') - k
               IN  /\ kept >= 0
                   /\ Len(logs') = IF Len(logs) + k > lg.cap THEN lg.cap
                                   ELSE Len(logs) + k
                   /\ \A i \in 1..kept :
                         logs'[i] = logs[Len(logs) - kept + i]]_vars

\* an append at capacity pushed the oldest entries out
C22_Witness ==
    /\ lg.pc[1] = "done"
    /\ Len(logs) = lg.cap
    /\ logs[1].who = 0 /\ logs[1].time > 1
    /\ logs[Len(logs)].who = 1

\* ------------------------------------------------------------------- C23
\* C23: a GET answered after two concurrent handlers returned reports a
\* count equal to the number of entries it returns and at most the cap,
\* holds entries of both handlers, and lists the entries in time order.
C23_ConcurrentAppendsRead ==
    (lg.read /\ lg.settled) =>
        /\ lg.count = Len(lg.entries)
        /\ lg.count <= lg.cap
        /\ \A s \in Sessions :
              \E i \in 1..Len(lg.entries) : lg.entries[i].who = s
        /\ \A i, j \in 1..Len(lg.entries) :
              i < j => lg.entries[i].time <= lg.entries[j].time

\* GET answered a full buffer in which the entries of the two handlers
\* interleave
C23_Witness ==
    /\ lg.read /\ lg.settled
    /\ lg.count = lg.cap
    /\ \E i, j, k \in 1..Len(lg.entries) :
          /\ i < j /\ j < k
          /\ lg.entries[i].who = 1
          /\ lg.entries[j].who = 2
          /\ lg.entries[k].who = 1

\* ------------------------------------------------------------------- C24
\* a launch request that passed the field check
Launched ==
    /\ route = "POST /agent"
    /\ req.parsed /\ ~MissingLaunchFields(req)
    /\ rpc # "start"

\* C24: for every platform and requested TTS vendor the payload's vendor is
\* one the platform allows: the requested one when allowed, the platform
\* default otherwise; the request is sent upstream whatever the vendor,
\* and a successful upstream answer is passed on as 200.
C24_TtsVendorAllowed ==
    Launched =>
        /\ Len(calls) = 1
        /\ LET p == AgentConfig(req)
               v == calls[1].tts
           IN  /\ v \in TtsOptions(p)
               /\ v = IF req.ttsVendor \in TtsOptions(p) THEN req.ttsVendor
                      ELSE TtsDefault(p)
        /\ (rpc = "done" /\ ~up.failed /\ Ok(up.status) => resp.status = 200)

\* a vendor the platform does not offer was asked for and the launch went
\* through with the default
C24_Witness ==
    /\ Launched /\ rpc = "done"
    /\ req.platform = "shengwang" /\ req.ttsVendor = "azure"
    /\ calls[1].tts = "minimax"
    /\ resp.status = 200

\* ------------------------------------------------------------------- C25
\* C25: the payload's greeting, failure text and default system prompt are
\* those of the entry whose tag equals the requested language, and those of
\* zh-CN when no entry has that tag; en-US without a prompt override gives
\* the English template.
C25_LanguageTexts ==
    Launched =>
        LET e == IF req.language \in DOMAIN LANG_CONFIG
                 THEN LANG_CONFIG[req.language] ELSE LANG_CONFIG["zh-CN"]
        IN  /\ calls[1].greeting = e.greeting
            /\ calls[1].failure = e.failure
            /\ (req.systemPrompt = undefined =>
                    calls[1].systemPrompt = e.systemPrompt)
            /\ (req.language = "en-US" /\ req.systemPrompt = undefined =>
                    calls[1].systemPrompt = "You are a friendly AI voice assistant. Please respond in natural, conversational English.")

\* ------------------------------------------------------------------- C26
\* C26 (as stated): a system prompt, temperature or max tokens the caller
\* supplied is what the payload carries; a default appears only for a
\* field the caller left out.
C26_OverrideAlwaysWins ==
    Launched =>
        /\ (req.systemPrompt # undefined =>
                calls[1].systemPrompt = req.systemPrompt)
        /\ (req.temperature \notin {undefined, null} =>
                calls[1].temperature = req.temperature)
        /\ (req.maxTokens \notin {undefined, null} =>
                calls[1].maxTokens = req.maxTokens)

\* C26 (amended): a non-empty system prompt and a numeric temperature or
\* max tokens (0 included) the caller supplied are what the payload
\* carries; an empty or missing system prompt gives the language default,
\* a missing temperature 0.7 and missing max tokens 500.
C26_OverrideWins ==
    Launched =>
        /\ (Truthy(req.systemPrompt) =>
                calls[1].systemPrompt = req.systemPrompt)
        /\ (~Truthy(req.systemPrompt) /\ LanguageOf(req) \in DOMAIN LANG_CONFIG
                => calls[1].systemPrompt =
                       LANG_CONFIG[LanguageOf(req)].systemPrompt)
        /\ (req.temperature \notin {undefined, null} =>
                calls[1].temperature = req.temperature)
        /\ (req.temperature = undefined => calls[1].temperature = "0.7")
        /\ (req.maxTokens \notin {undefined, null} =>
                calls[1].maxTokens = req.maxTokens)
        /\ (req.maxTokens = undefined => calls[1].maxTokens = "500")

\* prompt, temperature 0 and max tokens were all overridden for en-US
C26_Witness ==
    /\ Launched
    /\ req.language = "en-US"
    /\ req.systemPrompt = "Answer in one sentence."
    /\ req.temperature = zero /\ req.maxTokens = "100"
    /\ calls[1].systemPrompt = "Answer in one sentence."
    /\ calls[1].temperature = zero

\* ------------------------------------------------------------------- C27
\* C27: no entry of the log buffer and no response body of POST /api/agent
\* holds a secret unshortened.
C27_NoSecretInFull ==
    /\ \A i \in 1..Len(logs) : logs[i].full = {}
    /\ (route = "POST /agent" => resp.body.token = undefined)

\* ------------------------------------------------------------------- C28
\* C28: the duration grows only in a step taken while the status is
\* connected or talking, and it is 0 whenever the status is idle.
C28_DurationOnlyWhileLive ==
    [][/\ (timer'.dur > timer.dur => status \in {"connected", "talking"})
       /\ (status' = "idle" => timer'.dur = 0)]_vars

\* ------------------------------------------------------------------- C29
\* split('-')[0] of a string: the characters before its first dash
FirstComponent(s) ==
    LET dashes == {i \in 1..Len(s) : s[i] = "-"}
    IN  IF dashes = {} THEN s
        ELSE SubSeq(s, 1, (CHOOSE i \in dashes :
                              \A j \in dashes : i <= j) - 1)

\* C29: the name returned for prefix P starts with P followed by a dash,
\* and the component after that dash is an integer lying between the clock
\* readings taken before and after the call.
C29_ChannelNameTimestamp ==
    chan.pc = "done" =>
        LET P == PrefixOf(chan.arg) \o <<"-">>
            n == chan.name
        IN  /\ Len(n) > Len(P)
            /\ SubSeq(n, 1, Len(P)) = P
            /\ LET t == parseInt(FirstComponent(
                                     SubSeq(n, Len(P) + 1, Len(n))))
               IN  /\ t # -1
                   /\ chan.before <= t
                   /\ t <= chan.after

\* a name with a two-digit timestamp was made for a prefix holding a dash
\* while the clock moved on both sides of the call
C29_Witness ==
    /\ chan.pc = "done"
    /\ chan.arg = <<"a", "-", "7">>
    /\ chan.before < chan.after
    /\ chan.before = 9 /\ chan.after = 11
    /\ Len(chan.name) = 13

\* ------------------------------------------------------------------- C30
\* C30: validatePassword(input) is true exactly when a password is
\* configured (set and not empty) and input equals it; whenever it is true
\* isPasswordConfigured() is true.
C30_ValidIffConfiguredAndEqual ==
    /\ pwd.calledV =>
          (pwd.valid <=> (pwd.env \notin {undefined, ""}
                          /\ pwd.input = pwd.env))
    /\ (pwd.calledV /\ pwd.calledC /\ pwd.valid => pwd.configured)

\* the configured password was entered and accepted
C30_Witness ==
    /\ pwd.calledV /\ pwd.calledC
    /\ pwd.env = "correct-password" /\ pwd.input = "correct-password"
    /\ pwd.valid /\ pwd.configured

\* ------------------------------------------------------------------ C38
\* C38: whenever the AuraPage status is Connected and no hangup has been
\* issued, clientRef and localTrackRef are non-null, also when the user
\* retried from Error while the error-path endCall was still awaiting
\* client.leave().
C38_ConnectedHoldsRefs ==
    (page = "aura" /\ status = "connected"
        /\ \A t \in Tasks : task[t].kind # "stop")
    => (clientRef # Null /\ localTrackRef # Null)

\* ------------------------------------------------------------------ C40
\* C40: whenever POST /agent responds 200, the response body carries a
\* non-empty agentId.
C40_SuccessCarriesAgentId ==
    (route = "POST /agent" /\ rpc = "done" /\ resp.status = 200)
    => Truthy(resp.body.agentId)

\* ------------------------------------------------------------------ C31
\* C31: both ids returned by generateUids() are integers in the range
\* 0 <= id < 100000 (UidRange in the model), for every sequence of draws,
\* the regenerated ones included.
C31_UidsInRange ==
    uidResult # <<>> =>
        \A i \in 1..2 : /\ uidResult[i] \in Int
                        /\ 0 <= uidResult[i]
                        /\ uidResult[i] < UidRange

\* C31 witness: the pair returned after a collision, the regenerated agent
\* id being the largest value and the user id the smallest
C31_Witness ==
    /\ uidResult = <<0, UidRange - 1>>
    /\ Len(draws) >= 3
    /\ draws[1] = draws[2]
    /\ draws[3] = UidRange - 1

\* ------------------------------------------------------------------ C36
\* a number n sent in a JSON body, as the route reads it back: 0 is the
\* falsy number 0, every other id a truthy number
jsonNumber(n) == IF n = 0 THEN zero ELSE "nonzero"

\* AuraPage.startCall: body of fetch('/api/token') for the id uid
startCallTokenBody(uid) ==
    [NoReq EXCEPT !.parsed = TRUE, !.channelName = "ch",
                  !.uid = jsonNumber(uid), !.platform = "agora"]

\* AuraPage.startCall: body of fetch('/api/agent') in the session s
startCallAgentBody(s) ==
    [NoReq EXCEPT !.parsed = TRUE, !.channelName = "ch",
                  !.agentUid = jsonNumber(s.launchAgentUid),
                  !.userUid = jsonNumber(s.launchUserUid),
                  !.token = "token", !.platform = "agora",
                  !.language = "en"]

\* C36: no request that AuraPage.startCall sends with the ids of
\* generateUids(), the id 0 included, is rejected as lacking a required
\* parameter by POST /token or POST /agent.
C36_GeneratedIdsPassValidation ==
    page = "aura" =>
        /\ sess.tokenUid # NoUid
              => ~MissingTokenFields(startCallTokenBody(sess.tokenUid))
        /\ sess.agentTokenUid # NoUid
              => ~MissingTokenFields(startCallTokenBody(sess.agentTokenUid))
        /\ sess.launchAgentUid # NoUid
              => ~MissingLaunchFields(startCallAgentBody(sess))

\* ------------------------------------------------------------------ C34
\* the value of the launch body's field key in the session s: the grant
\* passed under that name, undefined when the page does not send the field
launchField(s, key) ==
    LET sent == {i \in 1..Len(s.uses) : s.uses[i].as = key}
    IN  IF sent = {} THEN undefined ELSE s.uses[CHOOSE i \in sent : TRUE].grant

\* POST /agent: const agentToken = token || userToken
agentToken(s) == JsOr(launchField(s, "token"), launchField(s, "userToken"))

\* C34: a session that has sent its launch request obtained exactly two
\* grants, the human's for userUid and the agent's for agentUid, and used
\* each once: the human's only in client.join, the agent's only as the
\* token of the launch request, which is the token POST /agent forwards.
C34_GrantsUsedOnce ==
    sess.pc \in {"launch", "connected"} =>
        /\ Len(sess.grants) = 2
        /\ {sess.grants[i] : i \in 1..2} =
              {[grant |-> "human", uid |-> sess.userUid],
               [grant |-> "agent", uid |-> sess.agentUid]}
        /\ Len(sess.uses) = 2
        /\ sess.uses[1] = [grant |-> "human", as |-> "join"]
        /\ sess.uses[2].grant = "agent"
        /\ sess.uses[2].as \in {"token", "userToken"}
        /\ agentToken(sess) = "agent"

\* C34 witness: a playground session connected after sending the agent's
\* grant under the name userToken
C34_Witness ==
    /\ page = "home"
    /\ sess.pc = "connected"
    /\ launchField(sess, "userToken") = "agent"
    /\ launchField(sess, "token") = undefined

\* ------------------------------------------------------------------ C39
\* C39: when the client omits the platform field, the token it is given
\* is signed with the credentials of the platform on which POST /agent
\* then starts the agent: the signing call and the upstream call carry the
\* same app id.
C39_DefaultPlatformsAgree ==
    (req.parsed /\ req.platform = undefined) =>
        \A i, j \in 1..Len(calls) :
            (calls[i].kind = "sign" /\ calls[j].kind = "upstream")
                => calls[i].appId = calls[j].appId

\* ------------------------------------------------------------------ C35
\* C35: after any sequence of addLog calls the page's log holds at most 50
\* entries, and they are the latest ones: an append at capacity evicts the
\* oldest entry.
C35_ClientLogBounded ==
    LET e == debugLogs.entries
    IN  /\ Len(e) <= 50
        /\ \A i \in 1..Len(e) : e[i] = debugLogs.count - Len(e) + i

\* ------------------------------------------------------------------ C33
\* C33: teardown releases the local track, removes the RTC event
\* subscriptions and leaves the channel before it calls stopAgent, and
\* turns Idle last: the stop request is issued only once the track and the
\* client are released, and when Idle is reached no client of the page
\* has a subscription left.
C33_TeardownOrder ==
    [][/\ (stopReq' # stopReq)
            => (audioTrackRef = Null /\ clientRef = Null)
       /\ (page = "home" /\ state # "idle" /\ state' = "idle")
            => \A t \in Tasks : ~task'[t].lis
       /\ (page = "aura" /\ status # "idle" /\ status' = "idle")
            => \A t \in Tasks : ~task'[t].lis]_vars

\* ------------------------------------------------------------------ C37
\* C37: the DELETE /agent request that the playground's hangup sends
\* carries the platform with which the agent it names was started, also
\* after the user changed the platform select before starting.
C37_StopPlatformMatches ==
    \A t \in Tasks :
        (page = "home" /\ task[t].kind = "stop" /\ task[t].pc = "stopAgent")
            => task[t].platform = task[task[t].tgt].platform

\* ------------------------------------------------------------------ C32
\* no startCall / startConversation invocation is still running
NoStartInFlight ==
    \A t \in Tasks : task[t].kind = "start" => task[t].pc \in Terminal

\* C32: when every external call eventually returns or fails, every start
\* eventually terminates, and once no start is running the status of the
\* mounted page is neither Connecting nor Error.
C32_StartSettles ==
    /\ \A t \in Tasks :
          (task[t].kind = "start") ~> (task[t].pc \in Terminal)
    /\ []((NoStartInFlight /\ mounted)
             => /\ status \notin {"connecting", "error"}
                /\ state \notin {"connecting", "error"})

\* C32 witness: an AuraPage start failed after it joined the channel, its
\* catch clause left the channel, and the page is Idle again
C32_Witness ==
    /\ page = "aura"
    /\ NoStartInFlight
    /\ status = "idle"
    /\ \E t \in Tasks : /\ task[t].kind = "start"
                        /\ task[t].pc = "done"
                        /\ task[t].client = "left"
                        /\ agent[t] = "none"

====
